---- MODULE Spec2Model ----
(***************************************************************************)
(* Verification model of the multi-source ingestion and deduplication      *)
(* pipeline of the Sneaker-Scraper repository.                             *)
(*                                                                         *)
(* Eight specifications share this module:                                   *)
(*   Spec          the entity resolvers (one behaviour = one resolver      *)
(*                 run twice over the same query result)                   *)
(*   SpecImages    one behaviour is either a run of ComprehensiveCollec-   *)
(*                 tionManager._download_and_validate_image over a stream  *)
(*                 of image candidates, or a run of ImageQualityAnalyzer.  *)
(*                 analyze_all_images over a table of images               *)
(*   SpecBudget    the request budget of the ScrapeNinja API in the        *)
(*                 collection manager and in the production scraper        *)
(*   SpecRun       one run of a coordinator (working collector, 36-hour    *)
(*                 collector, collection manager, Drive merger or          *)
(*                 Hyperbrowser session) with the clock and a stop signal  *)
(*   SpecBatch     one session processing the items of one query           *)
(*   SpecWorkers   threads running the same function at the same time on   *)
(*                 the shared request counter, hash set or catalog         *)
(*   SpecStore     the image directory and image table of a collector,     *)
(*                 one download_image call after another                   *)
(*   SpecCycle     the working collector paging through the sneakers that  *)
(*                 lack images, cycle after cycle                          *)
(* Variables that a specification does not use keep their initial value.   *)
(***************************************************************************)
EXTENDS Integers, Sequences, FiniteSets, TLC

(***************************************************************************)
(* Bounds of the model.                                                    *)
(***************************************************************************)
\* number of RawItems one query returns
MaxQuery == 2

\* number of image candidates one collector run downloads
MaxCandidates == 3

\* number of images one analyzer run examines
MaxAnalyzed == 2

\* number of queries queued for one source in one run
MaxQueries == 10

\* the request limit of a source (the programs set api_limit = 200 and
\* scrapeninja_limit = 100)
MaxRequests == 5

\* number of work items (search queries, sneakers) of one worklist
MaxItems == 2

\* number of results (metadata records, images) one work item yields
MaxPerItem == 2

\* the wall-clock deadline of a run, in ticks (the programs run 6 and 36 hours)
Deadline == 3

\* the item and image targets of a run (the manager sets metadata_target =
\* 2000 and image_target = 1000)
MaxTarget == 2

\* number of items one session processes before its commit or close
MaxBatch == 3

\* threads that run at the same time (ThreadPoolExecutor(max_workers=3))
MaxWorkers == 2

\* sneakers in the sneakers table the working collector pages through
MaxSneakers == 3

\* sneakers one page of get_sneakers_batch holds (run_collection asks for 12)
BatchSize == 2

\* images one search for a sneaker returns (the collectors keep up to 8)
MaxFound == 1

\* cycles the working collector completes before its last one
MaxCycles == 1

\* download_image calls of one history of the 36-hour collector or of the
\* production scraper
MaxDownloads == 3

\* hash_size of the perceptual hashes: a hash has HashSize * HashSize bits
\* (imagehash computes 8 x 8 = 64 bits)
HashSize == 4

(***************************************************************************)
(* Strings.  A Python str is a sequence of characters; None is a value     *)
(* distinct from every str, the empty str included.                        *)
(***************************************************************************)
None == <<"None">>

Chars == {"a", "A", "b"}

LowerChar(c) == IF c = "A" THEN "a" ELSE c

\* str.lower()
Lower(s) == [i \in 1..Len(s) |-> LowerChar(s[i])]

RECURSIVE LStrip(_)
LStrip(s) == IF s # << >> /\ Head(s) = " " THEN LStrip(Tail(s)) ELSE s

RECURSIVE RStrip(_)
RStrip(s) ==
  IF s # << >> /\ s[Len(s)] = " " THEN RStrip(SubSeq(s, 1, Len(s) - 1)) ELSE s

\* str.strip()
Strip(s) == RStrip(LStrip(s))

\* Python truthiness of an optional str: None and '' are falsy
Truthy(v) == v # None /\ v # << >>

\* needle in hay
Contains(hay, needle) ==
  \E i \in 0..(Len(hay) - Len(needle)) : SubSeq(hay, i + 1, i + Len(needle)) = needle

\* SQL: column ILIKE '%' || pattern || '%'   (no wildcard characters in Chars)
ILikeContains(column, pattern) ==
  column # None /\ Contains(Lower(column), Lower(pattern))

(***************************************************************************)
(* RawItems: what an adapter hands to a resolver.  price 0 stands for a    *)
(* missing price (None, or the 0.0 default of normalize_sneaker_data).     *)
(***************************************************************************)
Names == {<< >>, <<"a">>, <<"A">>, <<"a", "b">>}

Brands == {<<"n">>, <<"m">>}

RawSkus == {None, <<"s">>}

NoPrice == 0

Payloads == {<<NoPrice, None>>, <<1, None>>, <<2, <<"b">>>>}

RawItems ==
  {[name |-> n, brand |-> b, sku |-> s, price |-> p[1], desc |-> p[2]] :
     n \in Names, b \in Brands, s \in RawSkus, p \in Payloads}

Queries == UNION {[1..k -> RawItems] : k \in 1..MaxQuery}

Impls == {"save_metadata", "process_sneaker_data", "save_sneaker_to_db",
          "process_scraped_data", "save_sneaker_from_sneaks"}

VARIABLES
  impl,             \* which resolver this behaviour runs
  query,            \* the RawItems the (source, query) pair returns
  pos,              \* index of the next RawItem of the current pass
  pass,             \* 1, 2: the pass under way; 3: both passes done
  catalog,          \* committed rows of the sneakers table, in rowid order
  session,          \* rows as the open SQLAlchemy session sees them
  sessionOk,        \* FALSE once a flush has failed and nobody rolled back
  processed_names,  \* ComprehensiveCollectionManager.processed_names
  rstats,           \* duplicates / errors / processed counters of the run
  countAfterFirst,  \* number of committed rows when pass 1 ended
  last              \* outcome of the latest resolver call

resolverVars == <<impl, query, pos, pass, catalog, session, sessionOk,
                  processed_names, rstats, countAfterFirst, last>>

VARIABLES
  program,          \* SpecImages: "collector" or "analyzer"
  ncand,            \* collector: number of candidates downloaded so far
  processed_urls,   \* ComprehensiveCollectionManager.processed_urls
  processed_hashes, \* ComprehensiveCollectionManager.processed_hashes
  images,           \* collector: rows of the images table, in rowid order
  istats,           \* collector: duplicates_prevented, quality_filtered, non_shoe_filtered
  verdict,          \* collector: how the latest candidate left _download_and_validate_image
  nexamined,        \* analyzer: number of images examined so far
  image_data,       \* analyzer: analyze_all_images.image_data
  results,          \* analyzer: ImageQualityAnalyzer.results
  examined          \* analyzer: the latest image examined and its category

imageVars == <<program, ncand, processed_urls, processed_hashes, images, istats,
               verdict, nexamined, image_data, results, examined>>

VARIABLES
  client,        \* SpecBudget: "manager" or "production"
  api_requests,  \* api_requests / scrapeninja_requests
  calls,         \* number of requests.post calls made so far
  denied,        \* number of queries turned away at the limit so far
  bstats,        \* the request counters of stats
  qpos,          \* number of queued queries handled so far
  lastq          \* how the latest query ended

budgetVars == <<client, api_requests, calls, denied, bstats, qpos, lastq>>

VARIABLES
  runner,      \* SpecRun: which program's run this is
  rphase,      \* where the run is: "loop", "item", "submit", "gather", "ended",
               \* "aborted" (interrupted), "raised" (left by an exception)
  running,     \* WorkingSneakerCollector.running
  clock,       \* wall-clock time, in ticks
  stop_sent,   \* a stop signal (SIGINT) has been delivered to the process
  todo,        \* work items of the worklist not started yet
  cycles,      \* stats['cycles_completed']
  left,        \* results of the current work item not handled yet
  icount_local,\* images_downloaded of Enhanced36HourCollector.process_sneaker
  sneakers_processed, \* stats['sneakers_processed']
  mrows,       \* rows this run has committed to sneakers
  mcount,      \* stats['metadata_collected']
  irows,       \* rows this run has committed to its image table
  icount,      \* images_downloaded / stats['images_collected']
  pending,     \* futures submitted to the executor and not finished
  found,       \* sum of the results of the finished futures
  reported,    \* the final report has been produced
  report       \* the counts the final report shows

runVars == <<runner, rphase, running, clock, stop_sent, todo, cycles, left, icount_local,
             sneakers_processed, mrows, mcount, irows, icount, pending, found, reported, report>>

\* the variables of the run coordinators
VARIABLES
  wkind,       \* SpecWorkers: the function every worker thread runs
  wpc,         \* per worker: where it is in the function
  wjob,        \* per worker: the arguments of its call
  wout         \* per worker: how its call ended

workerVars == <<wkind, wpc, wjob, wout>>

VARIABLES
  collector,        \* SpecStore: the program whose image store this is
  sphase,           \* working collector: "loop", "batch" or "sneaker"
  offset,           \* run_collection.offset
  batch,            \* sneakers of the current batch not visited yet
  cur,              \* the sneaker collect_images_for_sneaker is working on
  all_images,       \* search results of the current sneaker not handled yet
  files,            \* names of the files in the image directory
  image_rows,       \* rows of the program's image table, in rowid order
  image_hash_set,   \* Enhanced36HourCollector.image_hashes
  cycles_completed, \* stats['cycles_completed']
  ndownloads,       \* number of download_image calls made so far
  fetched,          \* how the latest download_image call ended
  due,              \* sneakers that had fewer than 3 images when the cycle began
  visited,          \* sneakers visited since the cycle began
  rejected          \* (sneaker, url) pairs a gate has rejected so far

storeVars == <<collector, sphase, offset, batch, cur, all_images, files, image_rows,
               image_hash_set, cycles_completed, ndownloads, fetched, due, visited, rejected>>

coordVars == <<runVars, workerVars, storeVars>>

vars == <<resolverVars, imageVars, budgetVars, coordVars>>

(***************************************************************************)
(* The sneakers table (models.py, class Sneaker).                          *)
(***************************************************************************)
\* sku = Column(String, unique=True): NULLs never collide, '' does
SkuUniqueOk(rows, sku) == sku = None \/ \A i \in 1..Len(rows) : rows[i].sku # sku

Row(name, brand, sku, price, desc) ==
  [name |-> name, brand |-> brand, sku |-> sku, price |-> price, desc |-> desc]

\* query(...).first() over the rowids that satisfy the filter: the least
\* rowid, 0 if there is none
First(rowids) ==
  IF rowids = {} THEN 0 ELSE CHOOSE i \in rowids : \A j \in rowids : i <= j

\* the rowids of the rows that satisfy a filter
BySku(rows, sku) == {i \in 1..Len(rows) : rows[i].sku = sku}

ByNameILike(rows, name) == {i \in 1..Len(rows) : ILikeContains(rows[i].name, name)}

ByNameBrand(rows, name, brand) ==
  {i \in 1..Len(rows) : rows[i].name = name /\ rows[i].brand = brand}

NoOutcome == [kind |-> "none", idx |-> 0]

Outcome(kind, idx) == [kind |-> kind, idx |-> idx]

Bump(stats, field) == [stats EXCEPT ![field] = @ + 1]


Result(rows, ok, names, stats, out) ==
  [rows |-> rows, ok |-> ok, names |-> names, stats |-> stats, out |-> out]

\* description text written by the collectors ("Collected from ...", "Scraped from ...")
GeneratedDesc == <<"a">>

(***************************************************************************)
(* ComprehensiveCollectionManager._save_metadata                           *)
(* (raw sqlite3: every call opens a connection and commits)                *)
(***************************************************************************)
NameKey(data) == Strip(Lower(data.name))

SaveMetadata(rows, ok, names, stats, data) ==
  LET name_key == NameKey(data) IN
  IF name_key \in names
  THEN Result(rows, ok, names, Bump(stats, "duplicates"),
              Outcome("match", First({i \in 1..Len(rows) : Strip(Lower(rows[i].name)) = name_key})))
  ELSE Result(Append(rows, Row(data.name, data.brand, None, data.price, GeneratedDesc)),
              ok, names \cup {name_key}, stats, Outcome("new", Len(rows) + 1))

\* ComprehensiveCollectionManager._load_existing_data
LoadExistingData(rows) ==
  {Strip(Lower(rows[i].name)) : i \in {j \in 1..Len(rows) : Truthy(rows[j].name)}}
    \cup
  {Strip(Lower(rows[i].sku)) : i \in {j \in 1..Len(rows) : Truthy(rows[j].sku)}}

(***************************************************************************)
(* ScraperManager._process_sneaker_data, with the try/except of its caller *)
(* _scrape_platform (one session per platform run, commit per item, an     *)
(* exception counts an error and leaves the session as it is)              *)
(***************************************************************************)
\* what a match leaves of the matched row if the resolver copied the
\* RawItem's populated price over it
OverwritePrice(rows, idx, data) ==
  IF data.price # NoPrice THEN [rows EXCEPT ![idx].price = data.price] ELSE rows

\* what a match leaves of the matched row if the resolver filled its empty
\* description from the RawItem
FillDesc(rows, idx, data) ==
  IF ~Truthy(rows[idx].desc) /\ Truthy(data.desc)
  THEN [rows EXCEPT ![idx].desc = data.desc] ELSE rows

MatchOrCreate(rows, ok, names, stats, data, onMatch) ==
  LET bySku  == IF Truthy(data.sku) THEN First(BySku(rows, data.sku)) ELSE 0
      byName == IF bySku = 0 /\ Truthy(data.name)
                THEN First(ByNameILike(rows, data.name))
                ELSE 0
      existing_sneaker == IF bySku # 0 THEN bySku ELSE byName
  IN
  IF ~ok
  THEN Result(rows, ok, names, Bump(stats, "errors"), Outcome("error", 0))
  ELSE IF existing_sneaker # 0
  THEN Result(IF onMatch = "overwrite"
              THEN OverwritePrice(rows, existing_sneaker, data)
              ELSE FillDesc(rows, existing_sneaker, data), ok, names,
              Bump(stats, "processed"), Outcome("match", existing_sneaker))
  ELSE IF ~SkuUniqueOk(rows, data.sku)
  THEN Result(rows, FALSE, names, Bump(stats, "errors"), Outcome("error", 0))
  ELSE Result(Append(rows, Row(data.name, data.brand, data.sku, data.price, data.desc)),
              ok, names, Bump(stats, "processed"), Outcome("new", Len(rows) + 1))

\* ProcessSneakerData with a match that overwrites the populated price
ProcessSneakerData_Overwrite(rows, ok, names, stats, data) ==
  MatchOrCreate(rows, ok, names, stats, data, "overwrite")

\* ProcessSneakerData with a match that enriches the empty description
ProcessSneakerData_Enrich(rows, ok, names, stats, data) ==
  MatchOrCreate(rows, ok, names, stats, data, "fill")

ProcessSneakerData(rows, ok, names, stats, data) ==
  LET bySku  == IF Truthy(data.sku) THEN First(BySku(rows, data.sku)) ELSE 0
      byName == IF bySku = 0 /\ Truthy(data.name)
                THEN First(ByNameILike(rows, data.name))
                ELSE 0
      existing_sneaker == IF bySku # 0 THEN bySku ELSE byName
  IN
  IF ~ok
  THEN \* the session's flush failed earlier: every query raises PendingRollbackError
       Result(rows, ok, names, Bump(stats, "errors"), Outcome("error", 0))
  ELSE IF existing_sneaker # 0
  THEN Result(rows, ok, names, Bump(stats, "processed"), Outcome("match", existing_sneaker))
  ELSE IF ~SkuUniqueOk(rows, data.sku)
  THEN Result(rows, FALSE, names, Bump(stats, "errors"), Outcome("error", 0))
  ELSE Result(Append(rows, Row(data.name, data.brand, data.sku, data.price, data.desc)),
              ok, names, Bump(stats, "processed"), Outcome("new", Len(rows) + 1))

(***************************************************************************)
(* ComprehensiveAPIBuilder.save_sneaker_to_db on the output of             *)
(* normalize_sneaker_data (missing sku / description become '')            *)
(***************************************************************************)
OrEmpty(v) == IF v = None THEN << >> ELSE v

SaveSneakerToDb(rows, ok, names, stats, data) ==
  LET style_id == OrEmpty(data.sku)
      bySku  == IF Truthy(style_id) THEN First(BySku(rows, style_id)) ELSE 0
      byName == IF bySku = 0 /\ Truthy(data.name)
                THEN First(ByNameBrand(rows, data.name, data.brand))
                ELSE 0
      existing == IF bySku # 0 THEN bySku ELSE byName
  IN
  IF ~Truthy(data.name) \/ ~Truthy(data.brand)
  THEN Result(rows, ok, names, stats, Outcome("skip", 0))
  ELSE IF existing # 0
  THEN Result(rows, ok, names, Bump(stats, "duplicates"), Outcome("match", existing))
  ELSE IF ~SkuUniqueOk(rows, style_id)
  THEN \* IntegrityError on flush: rollback, errors += 1
       Result(rows, ok, names, Bump(stats, "errors"), Outcome("error", 0))
  ELSE Result(Append(rows, Row(data.name, data.brand, style_id, data.price, OrEmpty(data.desc))),
              ok, names, Bump(stats, "processed"), Outcome("new", Len(rows) + 1))

(***************************************************************************)
(* EnhancedScraper.process_scraped_data, one item of its loop.  The rows   *)
(* are those of the open session; the commit is at the end of the batch.   *)
(***************************************************************************)
ProcessScrapedItem(rows, ok, names, stats, item) ==
  LET existing_sneaker ==
        First(ByNameBrand(rows, item.name, item.brand))
  IN
  IF ~ok
  THEN Result(rows, ok, names, stats, Outcome("error", 0))
  ELSE IF existing_sneaker # 0
  THEN Result(rows, ok, names, Bump(stats, "processed"), Outcome("match", existing_sneaker))
  ELSE IF ~SkuUniqueOk(rows, item.sku)
  THEN \* flush fails, the except clause only logs: the session stays unusable
       Result(rows, FALSE, names, stats, Outcome("error", 0))
  ELSE Result(Append(rows, Row(item.name, item.brand, item.sku, item.price, GeneratedDesc)),
              ok, names, Bump(stats, "processed"), Outcome("new", Len(rows) + 1))

(***************************************************************************)
(* APIDatabaseBuilder._save_sneaker_from_sneaks                            *)
(***************************************************************************)
SaveSneakerFromSneaks(rows, ok, names, stats, data) ==
  LET style_id == OrEmpty(data.sku)
      existing == First(ByNameILike(rows, data.name))
  IN
  IF ~Truthy(data.name)
  THEN Result(rows, ok, names, stats, Outcome("skip", 0))
  ELSE IF existing # 0
  THEN Result(rows, ok, names, Bump(stats, "duplicates"), Outcome("match", existing))
  ELSE IF ~SkuUniqueOk(rows, style_id)
  THEN \* IntegrityError on flush: db.rollback(), return False
       Result(rows, ok, names, stats, Outcome("error", 0))
  ELSE Result(Append(rows, Row(data.name, data.brand, style_id, data.price, OrEmpty(data.desc))),
              ok, names, stats, Outcome("new", Len(rows) + 1))


(***************************************************************************)
(* Spec: one resolver, one query result, processed twice.                  *)
(***************************************************************************)
ZeroStats == [duplicates |-> 0, errors |-> 0, processed |-> 0]

\* ComprehensiveCollectionManager.stats, the image counters
ZeroImageStats == [duplicates_prevented |-> 0, quality_filtered |-> 0, non_shoe_filtered |-> 0]

\* str(imagehash.phash(image)) of no image
NoHash == << >>

NoVerdict == [kind |-> "none", size |-> 0, img_hash |-> NoHash]

\* ImageQualityAnalyzer.results
NoResults ==
  [non_shoe_images |-> {}, high_quality |-> {}, low_quality |-> {}, broken_links |-> {},
   errors |-> 0, analyzed |-> 0, duplicates |-> << >>, finished |-> FALSE]

NoExamined ==
  [kind |-> "none", id |-> 0, file_size |-> 0, resolution |-> 0, sharpness |-> 0,
   is_likely_shoe |-> FALSE]

\* stats: api_requests_used of the manager; scrapeninja_success and the length
\* of errors of the production scraper
ZeroBudgetStats == [api_requests_used |-> 0, scrapeninja_success |-> 0, errors |-> 0]

\* no query has been handled
BudgetIdle(cl) ==
  /\ client = cl
  /\ api_requests = 0
  /\ calls = 0
  /\ denied = 0
  /\ bstats = ZeroBudgetStats
  /\ qpos = 0
  /\ lastq = "none"

NoReport == [items |-> 0, images |-> 0, sneakers |-> 0]

\* no run has started
RunIdle(r) ==
  /\ runner = r
  /\ rphase = "loop"
  /\ running = TRUE
  /\ clock = 0
  /\ stop_sent = FALSE
  /\ todo = 0
  /\ cycles = 0
  /\ left = 0
  /\ icount_local = 0
  /\ sneakers_processed = 0
  /\ mrows = 0
  /\ mcount = 0
  /\ irows = 0
  /\ icount = 0
  /\ pending = 0
  /\ found = 0
  /\ reported = FALSE
  /\ report = NoReport

Workers == 1..MaxWorkers

NoJob == [url |-> "", img_hash |-> NoHash, data |-> None]

\* no worker thread has been started
WorkersIdle ==
  /\ wkind = "none"
  /\ wpc = [w \in Workers |-> "done"]
  /\ wjob = [w \in Workers |-> NoJob]
  /\ wout = [w \in Workers |-> "none"]

NoFetch == [kind |-> "none", sneaker_id |-> 0, url |-> "", path |-> << >>, seq |-> 0]

\* no image has been downloaded to the image directory
StoreIdle ==
  /\ collector = "none"
  /\ sphase = "loop"
  /\ offset = 0
  /\ batch = << >>
  /\ cur = 0
  /\ all_images = << >>
  /\ files = {}
  /\ image_rows = << >>
  /\ image_hash_set = {}
  /\ cycles_completed = 0
  /\ ndownloads = 0
  /\ fetched = NoFetch
  /\ due = {}
  /\ visited = {}
  /\ rejected = {}

CoordIdle == RunIdle("none") /\ WorkersIdle /\ StoreIdle

\* no image program has run
ImagesIdle(prog) ==
  /\ program = prog
  /\ ncand = 0
  /\ processed_urls = {}
  /\ processed_hashes = {}
  /\ images = << >>
  /\ istats = ZeroImageStats
  /\ verdict = NoVerdict
  /\ nexamined = 0
  /\ image_data = << >>
  /\ results = NoResults
  /\ examined = NoExamined

Init ==
  /\ ImagesIdle("resolver")
  /\ BudgetIdle("resolver")
  /\ CoordIdle
  /\ impl \in Impls
  /\ query \in Queries
  /\ pos = 1
  /\ pass = 1
  /\ catalog = << >>
  /\ session = << >>
  /\ sessionOk = TRUE
  /\ processed_names = {}
  /\ rstats = ZeroStats
  /\ countAfterFirst = 0
  /\ last = NoOutcome

Running == pass \in {1, 2} /\ pos <= Len(query)

\* the resolver call leaves r; commitNow tells whether the call itself commits
Apply(r, commitNow) ==
  /\ session' = r.rows
  /\ catalog' = IF commitNow THEN r.rows ELSE catalog
  /\ sessionOk' = r.ok
  /\ processed_names' = r.names
  /\ rstats' = r.stats
  /\ last' = r.out
  /\ pos' = pos + 1
  /\ UNCHANGED <<impl, query, pass, countAfterFirst, imageVars, budgetVars, coordVars>>

SaveMetadataStep ==
  /\ Running /\ impl = "save_metadata"
  /\ Apply(SaveMetadata(session, sessionOk, processed_names, rstats, query[pos]), TRUE)

ProcessSneakerDataStep ==
  /\ Running /\ impl = "process_sneaker_data"
  /\ Apply(ProcessSneakerData(session, sessionOk, processed_names, rstats, query[pos]), TRUE)

SaveSneakerToDbStep ==
  /\ Running /\ impl = "save_sneaker_to_db"
  /\ Apply(SaveSneakerToDb(session, sessionOk, processed_names, rstats, query[pos]), TRUE)

ProcessScrapedItemStep ==
  /\ Running /\ impl = "process_scraped_data"
  /\ Apply(ProcessScrapedItem(session, sessionOk, processed_names, rstats, query[pos]), FALSE)

SaveSneakerFromSneaksStep ==
  /\ Running /\ impl = "save_sneaker_from_sneaks"
  /\ Apply(SaveSneakerFromSneaks(session, sessionOk, processed_names, rstats, query[pos]), TRUE)

\* what the end of the batch leaves committed: process_scraped_data commits the
\* whole batch, or rolls all of it back when the session is unusable
Committed == IF impl = "process_scraped_data" /\ sessionOk THEN session ELSE catalog

\* The pass is over.  The next pass is a new run: a new session, new counters,
\* and for the collection manager either the same object (restart = FALSE) or
\* a new one, whose constructor calls _load_existing_data.
EndPass ==
  /\ pass \in {1, 2} /\ pos > Len(query)
  /\ catalog' = Committed
  /\ session' = Committed
  /\ sessionOk' = TRUE
  /\ pass' = pass + 1
  /\ pos' = 1
  /\ countAfterFirst' = IF pass = 1 THEN Len(Committed) ELSE countAfterFirst
  /\ rstats' = IF pass = 1 THEN ZeroStats ELSE rstats
  /\ \E restart \in BOOLEAN :
       processed_names' =
         IF impl = "save_metadata" /\ restart THEN LoadExistingData(Committed)
         ELSE processed_names
  /\ UNCHANGED <<impl, query, last, imageVars, budgetVars, coordVars>>

Next ==
  \/ SaveMetadataStep
  \/ ProcessSneakerDataStep
  \/ SaveSneakerToDbStep
  \/ ProcessScrapedItemStep
  \/ SaveSneakerFromSneaksStep
  \/ EndPass

Spec == Init /\ [][Next]_vars

\* the RawItem the latest resolver call of this pass was given
Resolved == pos > 1

RawItem == query[pos - 1]


(***************************************************************************)
(* Claims about the entity resolvers.                                      *)
(***************************************************************************)
Normalized(v) == IF v = None THEN None ELSE Strip(Lower(v))

EmptyField(f, v) == IF f = "price" THEN v = NoPrice ELSE ~Truthy(v)

Fields == {"name", "brand", "sku", "price", "desc"}

\* a resolver call of this pass has just matched an existing row
Matched == Resolved /\ last.kind = "match" /\ last.idx \in 1..Len(session)

\* this step is a resolver call that matches the row it returns
MatchStep == pos' = pos + 1 /\ last'.kind = "match" /\ last'.idx \in 1..Len(session)

\* C1: running the same (source, query) a second time, on the catalog the
\* first run populated, creates no new CanonicalItem: the catalog has as many
\* rows after the second run as after the first.
C1_SecondRunCreatesNothing ==
  (pass = 3 /\ impl \in {"save_metadata", "process_sneaker_data", "save_sneaker_to_db"})
    => Len(catalog) = countAfterFirst

\* C2: no two rows of the catalog share the normalized-lowercase (brand, name)
\* pair, and no two share a SKU that is present.
C2_UniqueKeys ==
  impl \in {"process_scraped_data", "save_metadata"} =>
    \A i, j \in 1..Len(catalog) :
      i < j =>
        /\ ~(/\ Normalized(catalog[i].brand) = Normalized(catalog[j].brand)
             /\ Normalized(catalog[i].name) = Normalized(catalog[j].name))
        /\ ~(Truthy(catalog[i].sku) /\ catalog[i].sku = catalog[j].sku)

RECURSIVE Pow(_, _)
Pow(b, e) == IF e = 0 THEN 1 ELSE b * Pow(b, e - 1)

HashBits == HashSize * HashSize

HexLen == (HashBits + 3) \div 4

\* the weights of the bits and of the hexadecimal digits of a hash
Pow2 == [e \in 0..HashBits |-> Pow(2, e)]

Pow16 == [e \in 0..HexLen |-> Pow(16, e)]

\* str(ImageHash): the hexadecimal digits, most significant first
ToHex(bits) == [i \in 1..HexLen |-> (bits \div Pow16[HexLen - i]) % 16]

\* imagehash.hex_to_hash
RECURSIVE HexToHash(_)
HexToHash(hex) ==
  IF hex = << >> THEN 0
  ELSE 16 * HexToHash(SubSeq(hex, 1, Len(hex) - 1)) + hex[Len(hex)]

\* ImageHash.__sub__: the number of bit positions in which two hashes differ
Hamming(a, b) ==
  Cardinality({i \in 0..(HashBits - 1) : (a \div Pow2[i]) % 2 # (b \div Pow2[i]) % 2})

\* are_images_similar(..., threshold=5)
threshold == 5

\* the hash with its k low bits set: two such hashes differ in |k1 - k2| bits
Ones(k) == Pow(2, k) - 1

\* hashes at distances 0, 1, threshold and threshold + 1 of each other
PopCounts == {0, 1, threshold + 1}

HashValues == {Ones(k) : k \in PopCounts}


(***************************************************************************)
(* ImageQualityAnalyzer                                                    *)
(***************************************************************************)
AreImagesSimilar_AnyVariant(hashes1, hashes2) ==
  LET phash_distance == Hamming(HexToHash(hashes1.phash), HexToHash(hashes2.phash))
      dhash_distance == Hamming(HexToHash(hashes1.dhash), HexToHash(hashes2.dhash))
  IN  phash_distance <= threshold \/ dhash_distance <= threshold

AreImagesSimilar(hashes1, hashes2) ==
  LET phash_distance == Hamming(HexToHash(hashes1.phash), HexToHash(hashes2.phash))
      dhash_distance == Hamming(HexToHash(hashes1.dhash), HexToHash(hashes2.dhash))
  IN  phash_distance <= threshold /\ dhash_distance <= threshold

\* calculate_image_hashes: the two variants are_images_similar reads
CalculateImageHashes(pbits, dbits) == [phash |-> ToHex(pbits), dhash |-> ToHex(dbits)]

\* find_duplicate_images from position i on; processed holds the ids already grouped
RECURSIVE FindDuplicatesFrom(_, _, _, _)
FindDuplicatesFrom(image_hashes, i, processed, duplicate_groups) ==
  IF i > Len(image_hashes) THEN duplicate_groups
  ELSE IF image_hashes[i].id \in processed
       THEN FindDuplicatesFrom(image_hashes, i + 1, processed, duplicate_groups)
  ELSE
    LET img1 == image_hashes[i]
        Joins(img2) == img2.id \notin processed
                       /\ AreImagesSimilar(img1.hashes, img2.hashes)
        duplicate_group ==
          <<img1>> \o SelectSeq(SubSeq(image_hashes, i + 1, Len(image_hashes)), Joins)
        grouped == {duplicate_group[k].id : k \in 1..Len(duplicate_group)}
    IN  FindDuplicatesFrom(image_hashes, i + 1, processed \cup grouped,
                           IF Len(duplicate_group) > 1
                           THEN Append(duplicate_groups, duplicate_group)
                           ELSE duplicate_groups)

FindDuplicateImages(image_hashes) == FindDuplicatesFrom(image_hashes, 1, {}, << >>)

\* analyze_image_quality returned {}
NoMetrics ==
  [present |-> FALSE, width |-> 0, height |-> 0, resolution |-> 0, file_size |-> 0,
   sharpness |-> 0]

AnalyzeImageQuality(a) ==
  IF ~a.measured THEN NoMetrics
  ELSE [present |-> TRUE, width |-> a.width, height |-> a.height,
        resolution |-> a.width * a.height, file_size |-> a.file_size,
        sharpness |-> a.sharpness]

\* detect_shoe_content; aspect_ratio = width / height, compared without division
DetectShoeContent(a, quality_metrics) ==
  LET scored == a.shoe_score > a.non_shoe_score /\ a.shoe_score > 0
      small == quality_metrics.resolution < 10000
      banner == quality_metrics.present
                /\ (\/ quality_metrics.width > 3 * quality_metrics.height
                    \/ 10 * quality_metrics.width < 3 * quality_metrics.height)
  IN  [is_likely_shoe |-> scored /\ ~small /\ ~banner]

min_resolution == 50000

min_sharpness == 100

min_file_size == 5000

IsHighQualityImage_Strict(quality_metrics, shoe_detection) ==
  IF ~quality_metrics.present THEN FALSE
  ELSE /\ quality_metrics.resolution >= min_resolution
       /\ quality_metrics.sharpness >= min_sharpness
       /\ quality_metrics.file_size > min_file_size
       /\ shoe_detection.is_likely_shoe

IsHighQualityImage(quality_metrics, shoe_detection) ==
  IF ~quality_metrics.present THEN FALSE
  ELSE /\ quality_metrics.resolution >= min_resolution
       /\ quality_metrics.sharpness >= min_sharpness
       /\ quality_metrics.file_size >= min_file_size
       /\ shoe_detection.is_likely_shoe

\* what one row of sneaker_images turns out to be when the analyzer fetches it
BlankImage ==
  [downloaded |-> FALSE, hashed |-> FALSE, measured |-> FALSE, pbits |-> 0, dbits |-> 0,
   width |-> 0, height |-> 0, file_size |-> 0, sharpness |-> 0,
   shoe_score |-> 0, non_shoe_score |-> 0]

AnalyzerDims == {<<200, 250>>, <<199, 250>>, <<1000, 300>>}

UrlScores == {<<1, 0>>, <<1, 1>>}

AnalyzerImages ==
  {BlankImage, [BlankImage EXCEPT !.downloaded = TRUE]}
  \cup {[BlankImage EXCEPT !.downloaded = TRUE, !.hashed = TRUE, !.pbits = p, !.dbits = d,
                           !.shoe_score = 1]
          : p \in HashValues, d \in HashValues}
  \cup {[downloaded |-> TRUE, hashed |-> TRUE, measured |-> TRUE, pbits |-> p, dbits |-> d,
         width |-> wh[1], height |-> wh[2], file_size |-> fs, sharpness |-> sh,
         shoe_score |-> sc[1], non_shoe_score |-> sc[2]]
          : p \in HashValues, d \in HashValues, wh \in AnalyzerDims,
            fs \in {min_file_size - 1, min_file_size},
            sh \in {min_sharpness - 1, min_sharpness}, sc \in UrlScores}

\* the body of the loop of analyze_all_images, for the image with the next id
AnalyzeImage(a) ==
  LET img_id == nexamined + 1
      hashes == CalculateImageHashes(a.pbits, a.dbits)
      quality_metrics == AnalyzeImageQuality(a)
      shoe_detection == DetectShoeContent(a, quality_metrics)
      category == IF ~shoe_detection.is_likely_shoe THEN "non_shoe_images"
                  ELSE IF IsHighQualityImage(quality_metrics, shoe_detection)
                       THEN "high_quality"
                  ELSE "low_quality"
  IN
  /\ nexamined' = img_id
  /\ IF ~a.downloaded THEN
       /\ results' = [results EXCEPT !.broken_links = @ \cup {img_id}]
       /\ examined' = [NoExamined EXCEPT !.kind = "broken", !.id = img_id]
       /\ UNCHANGED image_data
     ELSE IF ~a.hashed THEN
       /\ results' = [results EXCEPT !.errors = @ + 1]
       /\ examined' = [NoExamined EXCEPT !.kind = "error", !.id = img_id]
       /\ UNCHANGED image_data
     ELSE
       /\ image_data' = Append(image_data, [id |-> img_id, hashes |-> hashes])
       /\ results' = [results EXCEPT ![category] = @ \cup {img_id}, !.analyzed = @ + 1]
       /\ examined' = [kind |-> "categorized", id |-> img_id,
                       file_size |-> quality_metrics.file_size,
                       resolution |-> quality_metrics.resolution,
                       sharpness |-> quality_metrics.sharpness,
                       is_likely_shoe |-> shoe_detection.is_likely_shoe]

AnalyzeImageStep ==
  /\ program = "analyzer" /\ ~results.finished /\ nexamined < MaxAnalyzed
  /\ \E a \in AnalyzerImages : AnalyzeImage(a)
  /\ UNCHANGED <<resolverVars, budgetVars, coordVars, program, ncand, processed_urls, processed_hashes, images,
                 istats, verdict>>

\* the end of analyze_all_images
FindDuplicatesStep ==
  /\ program = "analyzer" /\ ~results.finished
  /\ results' = [results EXCEPT !.duplicates = FindDuplicateImages(image_data),
                                !.finished = TRUE]
  /\ UNCHANGED <<resolverVars, budgetVars, coordVars, program, ncand, processed_urls, processed_hashes, images,
                 istats, verdict, nexamined, image_data, examined>>


(***************************************************************************)
(* ComprehensiveCollectionManager: image candidates                        *)
(***************************************************************************)
mgr_min_resolution == <<300, 300>>

mgr_max_file_size == 10 * 1024 * 1024

mgr_min_file_size == 5 * 1024

Urls == {"u1", "u2", "person"}

SneakerIds == {1, 2}

\* a keyword of non_shoe_keywords occurs in the url
HasNonShoeKeyword(url) == url = "person"

\* _is_non_shoe_image; busy says that more than 0.3 of the pixels are edges
IsNonShoeImage(url, c) ==
  \/ HasNonShoeKeyword(url)
  \/ 2 * c.width < c.height
  \/ c.width > 3 * c.height
  \/ c.busy

\* what the download of one candidate url turns out to be
BlankCandidate ==
  [raised |-> FALSE, status_code |-> 200, size |-> 0, decodable |-> FALSE, width |-> 0,
   height |-> 0, pbits |-> 0, busy |-> FALSE, recorded |-> FALSE, uploaded |-> FALSE]

CandidateDims == {<<299, 300>>, <<300, 300>>, <<1000, 300>>}

\* the dimensions pass the resolution check of the collector
ResolutionOk(wh) == wh[1] >= mgr_min_resolution[1] /\ wh[2] >= mgr_min_resolution[2]

\* the downloads that differ in what the collector does with them: what happens
\* after a check has turned the candidate down is left blank, and the upload to
\* Drive is only tried for a recorded image
Candidates ==
  {[BlankCandidate EXCEPT !.raised = TRUE], [BlankCandidate EXCEPT !.status_code = 404]}
  \cup {[BlankCandidate EXCEPT !.size = sz]
          : sz \in {mgr_min_file_size - 1, mgr_min_file_size, mgr_max_file_size + 1}}
  \cup {[BlankCandidate EXCEPT !.size = mgr_min_file_size, !.decodable = TRUE,
                               !.width = wh[1], !.height = wh[2], !.pbits = p]
          : wh \in {d \in CandidateDims : ~ResolutionOk(d)}, p \in HashValues}
  \cup {[raised |-> FALSE, status_code |-> 200, size |-> mgr_min_file_size,
         decodable |-> TRUE, width |-> wh[1], height |-> wh[2], pbits |-> p, busy |-> b,
         recorded |-> ru[1], uploaded |-> ru[2]]
          : wh \in {d \in CandidateDims : ResolutionOk(d)}, p \in HashValues,
            b \in BOOLEAN, ru \in {<<FALSE, FALSE>>, <<TRUE, FALSE>>, <<TRUE, TRUE>>}}

Verdict(kind, size, img_hash) == [kind |-> kind, size |-> size, img_hash |-> img_hash]

\* the candidate is turned down: at most one counter moves, nothing is kept
Rejected(kind, field, size, img_hash) ==
  /\ verdict' = Verdict(kind, size, img_hash)
  /\ istats' = IF field = "" THEN istats ELSE Bump(istats, field)
  /\ UNCHANGED <<processed_urls, processed_hashes, images>>

\* _download_and_validate_image with the hash of the download computed and
\* compared first, before the size, resolution and content checks
DownloadAndValidateImage_DedupFirst(url, sneaker_id, c) ==
  LET img_hash == ToHex(c.pbits) IN
  IF url \in processed_urls THEN Rejected("duplicate_url", "duplicates_prevented", 0, NoHash)
  ELSE IF c.raised THEN Rejected("download_error", "", 0, NoHash)
  ELSE IF c.status_code # 200 THEN Rejected("bad_status", "", 0, NoHash)
  ELSE IF img_hash \in processed_hashes
       THEN Rejected("duplicate_hash", "duplicates_prevented", c.size, img_hash)
  ELSE IF c.size < mgr_min_file_size \/ c.size > mgr_max_file_size
       THEN Rejected("file_size", "quality_filtered", c.size, img_hash)
  ELSE IF ~c.decodable THEN Rejected("processing_error", "", c.size, img_hash)
  ELSE IF c.width < mgr_min_resolution[1] \/ c.height < mgr_min_resolution[2]
       THEN Rejected("resolution", "quality_filtered", c.size, img_hash)
  ELSE IF IsNonShoeImage(url, c)
       THEN Rejected("non_shoe", "non_shoe_filtered", c.size, img_hash)
  ELSE
    /\ images' = Append(images, [sneaker_id |-> sneaker_id, url |-> url, phash |-> img_hash,
                                 recorded |-> c.recorded,
                                 drive_url |-> c.recorded /\ c.uploaded])
    /\ processed_urls' = processed_urls \cup {url}
    /\ processed_hashes' = processed_hashes \cup {img_hash}
    /\ verdict' = Verdict("accepted", c.size, img_hash)
    /\ UNCHANGED istats

\* _download_and_validate_image(url, sneaker)
DownloadAndValidateImage(url, sneaker_id, c) ==
  LET img_hash == ToHex(c.pbits) IN
  IF url \in processed_urls THEN Rejected("duplicate_url", "duplicates_prevented", 0, NoHash)
  ELSE IF c.raised THEN Rejected("download_error", "", 0, NoHash)
  ELSE IF c.status_code # 200 THEN Rejected("bad_status", "", 0, NoHash)
  ELSE IF c.size < mgr_min_file_size \/ c.size > mgr_max_file_size
       THEN Rejected("file_size", "quality_filtered", c.size, NoHash)
  ELSE IF ~c.decodable THEN Rejected("processing_error", "", c.size, NoHash)
  ELSE IF c.width < mgr_min_resolution[1] \/ c.height < mgr_min_resolution[2]
       THEN Rejected("resolution", "quality_filtered", c.size, NoHash)
  ELSE IF img_hash \in processed_hashes
       THEN Rejected("duplicate_hash", "duplicates_prevented", c.size, img_hash)
  ELSE IF IsNonShoeImage(url, c)
       THEN Rejected("non_shoe", "non_shoe_filtered", c.size, img_hash)
  ELSE
    /\ images' = Append(images, [sneaker_id |-> sneaker_id, url |-> url, phash |-> img_hash,
                                 recorded |-> c.recorded,
                                 drive_url |-> c.recorded /\ c.uploaded])
    /\ processed_urls' = processed_urls \cup {url}
    /\ processed_hashes' = processed_hashes \cup {img_hash}
    /\ verdict' = Verdict("accepted", c.size, img_hash)
    /\ UNCHANGED istats

DownloadAndValidateImageStep ==
  /\ program = "collector" /\ ncand < MaxCandidates
  /\ ncand' = ncand + 1
  /\ \E url \in Urls, sneaker_id \in SneakerIds, c \in Candidates :
       DownloadAndValidateImage(url, sneaker_id, c)
  /\ UNCHANGED <<resolverVars, budgetVars, coordVars, program, nexamined, image_data, results, examined>>


(***************************************************************************)
(* SpecImages: one run of the image collector, or one run of the analyzer. *)
(***************************************************************************)
ResolverIdle ==
  /\ impl = "save_metadata"
  /\ query = << >>
  /\ pos = 1
  /\ pass = 3
  /\ catalog = << >>
  /\ session = << >>
  /\ sessionOk = TRUE
  /\ processed_names = {}
  /\ rstats = ZeroStats
  /\ countAfterFirst = 0
  /\ last = NoOutcome

InitImages ==
  /\ ResolverIdle
  /\ BudgetIdle("images")
  /\ CoordIdle
  /\ \E prog \in {"collector", "analyzer"} : ImagesIdle(prog)

NextImages ==
  \/ DownloadAndValidateImageStep
  \/ AnalyzeImageStep
  \/ FindDuplicatesStep

SpecImages == InitImages /\ [][NextImages]_vars


(***************************************************************************)
(* Claims about image deduplication and the quality gate.                  *)
(***************************************************************************)
\* the Hamming distance of two hashes, read off their hexadecimal digits
RECURSIVE HexDistance(_, _)
HexDistance(h1, h2) ==
  IF h1 = << >> \/ h2 = << >> THEN 0
  ELSE Cardinality({k \in 0..3 : (Head(h1) \div Pow(2, k)) % 2 # (Head(h2) \div Pow(2, k)) % 2})
       + HexDistance(Tail(h1), Tail(h2))

\* the distance exceeds the threshold on at least one of the two variants
Exceeds(hashes1, hashes2) ==
  \/ HexDistance(hashes1.phash, hashes2.phash) > threshold
  \/ HexDistance(hashes1.dhash, hashes2.dhash) > threshold

\* image id is reported as the duplicate of another image
Flagged(id) ==
  \E g \in 1..Len(results.duplicates) :
    \E k \in 2..Len(results.duplicates[g]) : results.duplicates[g][k].id = id

\* C5: an image candidate whose perceptual hash is within the threshold of an
\* image already accepted for the same sneaker is rejected as a duplicate: a
\* candidate the collector has just accepted is farther than the threshold
\* from every image accepted before it for that sneaker.
C5_NearDuplicateRejected ==
  verdict.kind = "accepted" =>
    \A k \in 1..(Len(images) - 1) :
      images[k].sneaker_id = images[Len(images)].sneaker_id
        => HexDistance(images[k].phash, verdict.img_hash) > threshold

C7_AcceptedImagesApart ==
  \A i, j \in 1..Len(images) :
    (i < j /\ images[i].sneaker_id = images[j].sneaker_id)
      => HexDistance(images[i].phash, images[j].phash) > threshold

\* C10: the minimum byte-size check is inclusive.  An analyzed image that
\* passes the other checks is high quality exactly when its file has at
\* least min_file_size bytes, and the collector turns a download down for its
\* size exactly when it is below its minimum or above its maximum.
C10_MinFileSizeInclusive ==
  /\ (/\ examined.kind = "categorized"
      /\ examined.is_likely_shoe
      /\ examined.resolution >= min_resolution
      /\ examined.sharpness >= min_sharpness)
       => (examined.id \in results.high_quality <=> examined.file_size >= min_file_size)
  /\ (examined.kind = "categorized" /\ examined.file_size = min_file_size - 1)
       => examined.id \notin results.high_quality
  /\ verdict.size # 0 =>
       (verdict.kind = "file_size"
          <=> (verdict.size < mgr_min_file_size \/ verdict.size > mgr_max_file_size))

\* an image of exactly min_file_size bytes is categorised as high quality
C10_Witness ==
  /\ examined.kind = "categorized"
  /\ examined.file_size = min_file_size
  /\ examined.id \in results.high_quality

\* the checks of the quality gate that the collector makes on the decoded
\* image: its resolution and its content
DecodeVerdicts == {"resolution", "non_shoe"}

\* the hash of the candidate had been computed and compared with the stored
\* hashes when the verdict was given
DedupChecked == verdict.img_hash # NoHash

api_limit == MaxRequests

scrapeninja_limit == MaxRequests

\* what requests.post turns out to do: raise, or return a response
PostOutcomes == {"raised", "ok", "bad_status", "bad_body"}

Scraped(reqs, stats, called, out) ==
  [api_requests |-> reqs, stats |-> stats, called |-> called, out |-> out]

\* _scrape_with_api(url)
ScrapeWithApi(reqs, stats, outcome) ==
  IF reqs >= api_limit THEN Scraped(reqs, stats, FALSE, "denied")
  ELSE IF outcome = "raised" THEN Scraped(reqs, stats, TRUE, "raised")
  ELSE Scraped(reqs + 1, [stats EXCEPT !.api_requests_used = reqs + 1], TRUE, outcome)

ScrapeStockxSearch_DeniedAsError(reqs, stats, outcome) ==
  IF reqs >= api_limit THEN Scraped(reqs, Bump(stats, "errors"), FALSE, "denied")
  ELSE ScrapeWithApi(reqs, stats, outcome)

\* _scrape_stockx_search(search_term), and the goat, nike and adidas searches
ScrapeStockxSearch(reqs, stats, outcome) ==
  IF reqs >= api_limit THEN Scraped(reqs, stats, FALSE, "denied")
  ELSE ScrapeWithApi(reqs, stats, outcome)

\* scrape_with_scrapeninja(url)
ScrapeWithScrapeninja(reqs, stats, outcome) ==
  IF reqs >= scrapeninja_limit THEN Scraped(reqs, stats, FALSE, "denied")
  ELSE IF outcome = "raised" THEN Scraped(reqs, Bump(stats, "errors"), TRUE, "raised")
  ELSE IF outcome = "ok" THEN Scraped(reqs + 1, Bump(stats, "scrapeninja_success"), TRUE, "ok")
  ELSE Scraped(reqs + 1, stats, TRUE, outcome)

\* one product url of process_sneaker; at the limit the loops of process_sneaker
\* and run_production_collection break, which turns every later url away too
ProcessSneakerUrl(reqs, stats, outcome) ==
  IF reqs >= scrapeninja_limit THEN Scraped(reqs, stats, FALSE, "denied")
  ELSE ScrapeWithScrapeninja(reqs, stats, outcome)

ApplyScraped(r) ==
  /\ api_requests' = r.api_requests
  /\ bstats' = r.stats
  /\ calls' = IF r.called THEN calls + 1 ELSE calls
  /\ denied' = IF r.out = "denied" THEN denied + 1 ELSE denied
  /\ lastq' = r.out
  /\ qpos' = qpos + 1
  /\ UNCHANGED <<client, resolverVars, imageVars, coordVars>>

ScrapeStockxSearchStep ==
  /\ client = "manager" /\ qpos < MaxQueries
  /\ \E outcome \in PostOutcomes : ApplyScraped(ScrapeStockxSearch(api_requests, bstats, outcome))

ProcessSneakerUrlStep ==
  /\ client = "production" /\ qpos < MaxQueries
  /\ \E outcome \in PostOutcomes : ApplyScraped(ProcessSneakerUrl(api_requests, bstats, outcome))

InitBudget ==
  /\ ResolverIdle
  /\ ImagesIdle("budget")
  /\ CoordIdle
  /\ \E cl \in {"manager", "production"} : BudgetIdle(cl)

NextBudget ==
  \/ ScrapeStockxSearchStep
  \/ ProcessSneakerUrlStep

SpecBudget == InitBudget /\ [][NextBudget]_vars


(***************************************************************************)
(* Claims about the request budget.                                        *)
(***************************************************************************)
\* this step handles a query that is turned away at the limit
DeniedStep == qpos' = qpos + 1 /\ lastq' = "denied"

\* C8: in one run the number of calls made to the API never exceeds the
\* request limit of the source.
C8_CallsWithinLimit ==
  calls <= (IF client = "production" THEN scrapeninja_limit ELSE api_limit)

\* C9: a query that is denied because the request limit is used up is skipped
\* (no call is made), is counted in the run statistics (a counter of stats
\* changes), and is not recorded as an error.
C9_DeniedSkippedAndCounted ==
  [][DeniedStep =>
       /\ calls' = calls
       /\ bstats' # bstats
       /\ bstats'.errors = bstats.errors]_vars

\* C9, as the programs behave: a denied query is skipped without a call and is
\* not recorded as an error, and no counter of the run statistics changes for it.
C9_DeniedSkippedUncounted ==
  [][DeniedStep =>
       /\ calls' = calls
       /\ api_requests' = api_requests
       /\ bstats' = bstats]_vars

\* a query has been denied at the limit, after the limit was used up by calls
C9_Witness ==
  /\ lastq = "denied"
  /\ denied > 0
  /\ api_requests = MaxRequests


(***************************************************************************)
(* Run coordinators: WorkingSneakerCollector.run_collection,               *)
(* Enhanced36HourCollector.run_collection and                              *)
(* ComprehensiveCollectionManager.run_comprehensive_collection             *)
(***************************************************************************)
notRunVars == <<resolverVars, imageVars, budgetVars, workerVars, storeVars>>

metadata_target == MaxTarget

image_target == MaxTarget

\* time.sleep, and time passing while the program works
Advance(t) == IF t < Deadline THEN t + 1 ELSE t

\* the final report is written with these counts, and the run returns
FinalReport(n_items, n_images, n_sneakers) ==
  /\ reported' = TRUE
  /\ report' = [items |-> n_items, images |-> n_images, sneakers |-> n_sneakers]
  /\ rphase' = "ended"

Live == rphase \notin {"ended", "aborted", "raised"}

\* SIGINT reaches the process.  The working collector has installed
\* signal_handler, which clears running; the 36-hour collector catches the
\* KeyboardInterrupt in run_collection and goes on to its final report; in the
\* manager, in the merger and in the Hyperbrowser session the
\* KeyboardInterrupt passes every "except Exception".
StopSignal ==
  /\ Live /\ ~stop_sent
  /\ runner \in {"working", "collector36", "manager", "merger", "session"}
  /\ stop_sent' = TRUE
  /\ IF runner = "working" THEN
       /\ running' = FALSE
       /\ UNCHANGED <<rphase, reported, report>>
     ELSE IF runner = "collector36" THEN
       /\ FinalReport(0, icount, sneakers_processed)
       /\ UNCHANGED running
     ELSE
       /\ rphase' = "aborted"
       /\ UNCHANGED <<running, reported, report>>
  /\ UNCHANGED <<runner, clock, todo, cycles, left, icount_local, sneakers_processed, mrows,
                 mcount, irows, icount, pending, found, notRunVars>>

Tick ==
  /\ Live /\ runner \in {"working", "collector36", "manager", "session"} /\ clock < Deadline
  /\ clock' = clock + 1
  /\ UNCHANGED <<runner, rphase, running, stop_sent, todo, cycles, left, icount_local,
                 sneakers_processed, mrows, mcount, irows, icount, pending, found, reported,
                 report, notRunVars>>

\* run_collection of the working collector: the head of the while loop, the
\* batch query and the head of the for loop
WorkingLoop ==
  /\ runner = "working" /\ rphase = "loop"
  /\ IF ~running \/ clock >= Deadline THEN
       /\ FinalReport(0, icount, sneakers_processed)
       /\ UNCHANGED <<clock, todo, cycles, left>>
     ELSE IF todo = 0 THEN
       /\ cycles' = cycles + 1
       /\ clock' = Advance(clock)
       /\ \E n \in 0..MaxItems : todo' = n
       /\ UNCHANGED <<rphase, left, reported, report>>
     ELSE
       /\ rphase' = "item"
       /\ todo' = todo - 1
       /\ \E n \in 0..MaxPerItem : left' = n
       /\ UNCHANGED <<clock, cycles, reported, report>>
  /\ UNCHANGED <<runner, running, stop_sent, icount_local, sneakers_processed, mrows, mcount,
                 irows, icount, pending, found, notRunVars>>

\* collect_images_for_sneaker, one image: download_image, save_image_to_database
WorkingDownloadImage ==
  /\ runner = "working" /\ rphase = "item" /\ left > 0
  /\ left' = left - 1
  /\ \E saved \in BOOLEAN :
       /\ irows' = IF saved THEN irows + 1 ELSE irows
       /\ icount' = IF saved THEN icount + 1 ELSE icount
  /\ UNCHANGED <<runner, rphase, running, clock, stop_sent, todo, cycles, icount_local,
                 sneakers_processed, mrows, mcount, pending, found, reported, report,
                 notRunVars>>

WorkingEndSneaker ==
  /\ runner = "working" /\ rphase = "item" /\ left = 0
  /\ sneakers_processed' = sneakers_processed + 1
  /\ clock' = Advance(clock)
  /\ rphase' = "loop"
  /\ UNCHANGED <<runner, running, stop_sent, todo, cycles, left, icount_local, mrows, mcount,
                 irows, icount, pending, found, reported, report, notRunVars>>

\* run_collection of the 36-hour collector: the heads of the two for loops
Collector36Loop ==
  /\ runner = "collector36" /\ rphase = "loop"
  /\ IF clock >= Deadline \/ todo = 0 THEN
       /\ FinalReport(0, icount, sneakers_processed)
       /\ UNCHANGED <<todo, left, icount_local>>
     ELSE
       /\ rphase' = "item"
       /\ todo' = todo - 1
       /\ icount_local' = 0
       /\ \E n \in 0..MaxPerItem : left' = n
       /\ UNCHANGED <<reported, report>>
  /\ UNCHANGED <<runner, running, clock, stop_sent, cycles, sneakers_processed, mrows, mcount,
                 irows, icount, pending, found, notRunVars>>

\* process_sneaker, one image: download_image
Collector36DownloadImage ==
  /\ runner = "collector36" /\ rphase = "item" /\ left > 0
  /\ left' = left - 1
  /\ \E saved \in BOOLEAN :
       /\ irows' = IF saved THEN irows + 1 ELSE irows
       /\ icount_local' = IF saved THEN icount_local + 1 ELSE icount_local
  /\ UNCHANGED <<runner, rphase, running, clock, stop_sent, todo, cycles, sneakers_processed,
                 mrows, mcount, icount, pending, found, reported, report, notRunVars>>

\* process_sneaker returns: images_downloaded += batch_images
Collector36EndSneaker ==
  /\ runner = "collector36" /\ rphase = "item" /\ left = 0
  /\ icount' = icount + icount_local
  /\ sneakers_processed' = sneakers_processed + 1
  /\ clock' = Advance(clock)
  /\ rphase' = "loop"
  /\ UNCHANGED <<runner, running, stop_sent, todo, cycles, left, icount_local, mrows, mcount,
                 irows, pending, found, reported, report, notRunVars>>

\* _collect_metadata: the heads of the loops over search terms and methods;
\* when they are done _collect_images fetches the sneakers needing images
ManagerMetadataLoop ==
  /\ runner = "manager" /\ rphase = "loop"
  /\ IF todo = 0 \/ mcount >= metadata_target THEN
       /\ rphase' = "submit"
       /\ \E n \in 0..MaxItems : todo' = n
       /\ UNCHANGED left
     ELSE
       /\ rphase' = "item"
       /\ todo' = todo - 1
       /\ \E n \in 0..MaxPerItem : left' = n
  /\ UNCHANGED <<runner, running, clock, stop_sent, cycles, icount_local, sneakers_processed,
                 mrows, mcount, irows, icount, pending, found, reported, report, notRunVars>>

\* _collect_metadata, one result: _save_metadata, collected += 1
ManagerSaveMetadata ==
  /\ runner = "manager" /\ rphase = "item" /\ left > 0
  /\ \E saved \in BOOLEAN :
       /\ mrows' = IF saved THEN mrows + 1 ELSE mrows
       /\ mcount' = IF saved THEN mcount + 1 ELSE mcount
       /\ left' = IF saved /\ mcount + 1 >= metadata_target THEN 0 ELSE left - 1
  /\ UNCHANGED <<runner, rphase, running, clock, stop_sent, todo, cycles, icount_local,
                 sneakers_processed, irows, icount, pending, found, reported, report,
                 notRunVars>>

ManagerEndQuery ==
  /\ runner = "manager" /\ rphase = "item" /\ left = 0
  /\ clock' = Advance(clock)
  /\ rphase' = "loop"
  /\ UNCHANGED <<runner, running, stop_sent, todo, cycles, left, icount_local,
                 sneakers_processed, mrows, mcount, irows, icount, pending, found, reported,
                 report, notRunVars>>

\* _collect_images: the loop that submits the sneakers; collected is still 0
ManagerSubmit ==
  /\ runner = "manager" /\ rphase = "submit"
  /\ LET collected == 0 IN
     IF todo = 0 \/ collected >= image_target THEN
       /\ rphase' = "gather"
       /\ UNCHANGED <<todo, pending>>
     ELSE
       /\ pending' = pending + 1
       /\ todo' = todo - 1
       /\ UNCHANGED rphase
  /\ UNCHANGED <<runner, running, clock, stop_sent, cycles, left, icount_local,
                 sneakers_processed, mrows, mcount, irows, icount, found, reported, report,
                 notRunVars>>

\* a worker of the executor runs _collect_sneaker_images for one sneaker
ManagerWorker ==
  /\ runner = "manager" /\ rphase \in {"submit", "gather"} /\ pending > 0
  /\ pending' = pending - 1
  /\ \E images_found \in 0..MaxPerItem :
       /\ irows' = irows + images_found
       /\ found' = found + images_found
  /\ UNCHANGED <<runner, rphase, running, clock, stop_sent, todo, cycles, left, icount_local,
                 sneakers_processed, mrows, mcount, icount, reported, report, notRunVars>>

\* _collect_images: the loop over as_completed; then _generate_final_report
ManagerGather ==
  /\ runner = "manager" /\ rphase = "gather" /\ pending = 0
  /\ icount' = found
  /\ FinalReport(mcount, found, 0)
  /\ UNCHANGED <<runner, running, clock, stop_sent, todo, cycles, left, icount_local,
                 sneakers_processed, mrows, mcount, irows, pending, found, notRunVars>>

\* run_unified_merger: create_drive_folder_structure raises when the root
\* folder cannot be created, and the handler of run_unified_merger logs the
\* exception and raises it again; otherwise the images are looked up
MergerStart ==
  /\ runner = "merger" /\ rphase = "loop"
  /\ \E root_folder_id \in BOOLEAN :
       IF ~root_folder_id THEN
         /\ rphase' = "raised"
         /\ UNCHANGED left
       ELSE
         /\ rphase' = "item"
         /\ \E n \in 0..MaxPerItem : left' = n
  /\ UNCHANGED <<runner, running, clock, stop_sent, todo, cycles, icount_local,
                 sneakers_processed, mrows, mcount, irows, icount, pending, found, reported,
                 report, notRunVars>>

\* process_database_images and process_directory_images, one image:
\* process_single_image, which catches what the upload raises
MergerProcessImage ==
  /\ runner = "merger" /\ rphase = "item" /\ left > 0
  /\ left' = left - 1
  /\ \E success \in BOOLEAN :
       /\ irows' = IF success THEN irows + 1 ELSE irows
       /\ icount' = IF success THEN icount + 1 ELSE icount
  /\ UNCHANGED <<runner, rphase, running, clock, stop_sent, todo, cycles, icount_local,
                 sneakers_processed, mrows, mcount, pending, found, reported, report,
                 notRunVars>>

\* run_unified_merger: generate_final_report
MergerReport ==
  /\ runner = "merger" /\ rphase = "item" /\ left = 0
  /\ FinalReport(0, icount, 0)
  /\ UNCHANGED <<runner, running, clock, stop_sent, todo, cycles, left, icount_local,
                 sneakers_processed, mrows, mcount, irows, icount, pending, found, notRunVars>>

\* run_session of the Hyperbrowser scraper: the head of the loop over the
\* sneakers
SessionLoop ==
  /\ runner = "session" /\ rphase = "loop"
  /\ IF clock >= Deadline \/ todo = 0 THEN
       /\ FinalReport(0, icount, sneakers_processed)
       /\ UNCHANGED <<todo, left>>
     ELSE
       /\ rphase' = "item"
       /\ todo' = todo - 1
       /\ \E n \in 0..MaxPerItem : left' = n
       /\ UNCHANGED <<reported, report>>
  /\ UNCHANGED <<runner, running, clock, stop_sent, cycles, icount_local, sneakers_processed,
                 mrows, mcount, irows, icount, pending, found, notRunVars>>

\* process_sneaker of the Hyperbrowser scraper, one target site: the test of
\* the time limit, then scrape_website_for_sneaker and download_and_save_image
SessionSite ==
  /\ runner = "session" /\ rphase = "item" /\ left > 0
  /\ IF clock >= Deadline THEN
       /\ left' = 0
       /\ UNCHANGED <<clock, irows, icount>>
     ELSE
       /\ left' = left - 1
       /\ clock' = Advance(clock)
       /\ \E saved \in BOOLEAN :
            /\ irows' = IF saved THEN irows + 1 ELSE irows
            /\ icount' = IF saved THEN icount + 1 ELSE icount
  /\ UNCHANGED <<runner, rphase, running, stop_sent, todo, cycles, icount_local,
                 sneakers_processed, mrows, mcount, pending, found, reported, report,
                 notRunVars>>

SessionEndSneaker ==
  /\ runner = "session" /\ rphase = "item" /\ left = 0
  /\ sneakers_processed' = sneakers_processed + 1
  /\ rphase' = "loop"
  /\ UNCHANGED <<runner, running, clock, stop_sent, todo, cycles, left, icount_local, mrows,
                 mcount, irows, icount, pending, found, reported, report, notRunVars>>

InitRun ==
  /\ ResolverIdle
  /\ ImagesIdle("run")
  /\ BudgetIdle("run")
  /\ \E r \in {"working", "collector36", "manager", "merger", "session"}, n \in 0..MaxItems :
       /\ runner = r
       /\ todo = n
  /\ rphase = "loop"
  /\ running = TRUE
  /\ clock = 0
  /\ stop_sent = FALSE
  /\ cycles = 0
  /\ left = 0
  /\ icount_local = 0
  /\ sneakers_processed = 0
  /\ mrows = 0
  /\ mcount = 0
  /\ irows = 0
  /\ icount = 0
  /\ pending = 0
  /\ found = 0
  /\ reported = FALSE
  /\ report = NoReport
  /\ WorkersIdle
  /\ StoreIdle

NextRun ==
  \/ StopSignal
  \/ Tick
  \/ WorkingLoop
  \/ WorkingDownloadImage
  \/ WorkingEndSneaker
  \/ Collector36Loop
  \/ Collector36DownloadImage
  \/ Collector36EndSneaker
  \/ ManagerMetadataLoop
  \/ ManagerSaveMetadata
  \/ ManagerEndQuery
  \/ ManagerSubmit
  \/ ManagerWorker
  \/ ManagerGather
  \/ MergerStart
  \/ MergerProcessImage
  \/ MergerReport
  \/ SessionLoop
  \/ SessionSite
  \/ SessionEndSneaker

SpecRun == InitRun /\ [][NextRun]_vars


(***************************************************************************)
(* Claims about the run coordinators                                       *)
(***************************************************************************)

C12_EndsWithReport == (rphase \in {"ended", "aborted", "raised"}) => reported

\* a work item is started: a loop enters its body, or a worker of the executor
\* takes a submitted sneaker
ItemStarts ==
  \/ rphase = "loop" /\ rphase' = "item"
  \/ pending' < pending

\* one of the run's stop conditions holds: the deadline has passed, or the
\* target of the current phase is reached
Stopped ==
  \/ runner \in {"working", "collector36", "session"} /\ clock >= Deadline
  \/ runner = "working" /\ ~running
  \/ runner = "manager" /\ rphase = "loop" /\ mcount >= metadata_target
  \/ runner = "manager" /\ rphase \in {"submit", "gather"} /\ found >= image_target

\* C13: a run stops as soon as its target is reached or its deadline has
\* passed: no work item is started once a stop condition holds.
C13_NoWorkAfterStop == [][ItemStarts => ~Stopped]_vars


(***************************************************************************)
(* SpecBatch: one session processes the items of one (source, query) pair, *)
(* as in _scrape_platform and process_scraped_data                         *)
(***************************************************************************)
BatchItems ==
  {d \in RawItems : d.name # << >> /\ d.brand = <<"n">> /\ d.price = 1}

BatchQueries == [1..MaxBatch -> BatchItems]

InitBatch ==
  /\ ImagesIdle("resolver")
  /\ BudgetIdle("resolver")
  /\ CoordIdle
  /\ impl \in Impls
  /\ query \in BatchQueries
  /\ pos = 1
  /\ pass = 2
  /\ catalog = << >>
  /\ session = << >>
  /\ sessionOk = TRUE
  /\ processed_names = {}
  /\ rstats = ZeroStats
  /\ countAfterFirst = 0
  /\ last = NoOutcome

SpecBatch == InitBatch /\ [][Next]_vars

\* the sku column the resolver would write for the item it is about to process
SkuToStore ==
  IF impl \in {"save_sneaker_to_db", "save_sneaker_from_sneaks"}
  THEN OrEmpty(query[pos].sku) ELSE query[pos].sku

\* the item about to be processed cannot be inserted: its sku is taken
ItemConflicts == ~SkuUniqueOk(session, SkuToStore)

\* C14: a failure stays local to its item: the items after it are still
\* processed, and an item ends in an error only through a fault of its own.
C14_FailureStaysLocal ==
  [][(pos' = pos + 1 /\ last'.kind = "error") => ItemConflicts]_vars

\* the cancellation token is set when the step is over: a stop signal has
\* been delivered, or the deadline of the run has passed
Cancelled ==
  \/ stop_sent'
  \/ runner \in {"working", "collector36", "session"} /\ clock >= Deadline

\* C19: the cancellation token is observed between work items only: an item
\* that has started and has steps left goes on, whatever the token says, until
\* its last step is done.
C19_ItemRunsToEnd ==
  [][(rphase = "item" /\ left > 0 /\ Cancelled)
       => (rphase' = "item" /\ left' \in {left, left - 1})]_vars

\* C15: no fault escapes from a coordinator: whatever fails inside the run,
\* the run method returns to its caller and does not raise.
C15_NoFaultEscapes == rphase # "raised"


(***************************************************************************)
(* SpecWorkers: threads that run the same function at the same time on the *)
(* shared state: the executor of _collect_images (_scrape_with_api and     *)
(* _download_and_validate_image on one manager object), and the scraping   *)
(* threads of main.py and of POST /api/scrape (_process_sneaker_data, each *)
(* thread with a session of its own on the same database).  A thread may   *)
(* be preempted between any two statements; a step is what a thread does   *)
(* between two accesses to the shared state.                               *)
(***************************************************************************)
WorkerUrls == {"u1", "u2"}

WorkerHashes == {ToHex(Ones(0)), ToHex(Ones(1))}

WorkerItems == {d \in BatchItems : d.name = <<"a">>}

Jobs(kind) ==
  IF kind = "scrape_with_api" THEN {NoJob}
  ELSE IF kind = "download_and_validate_image"
  THEN {[NoJob EXCEPT !.url = u, !.img_hash = h] : u \in WorkerUrls, h \in WorkerHashes}
  ELSE {[NoJob EXCEPT !.data = d] : d \in WorkerItems}

WorkerKinds == {"scrape_with_api", "download_and_validate_image", "process_sneaker_data"}

\* the worker's call returns
Return(w, out) ==
  /\ wpc' = [wpc EXCEPT ![w] = "done"]
  /\ wout' = [wout EXCEPT ![w] = out]

Goto(w, label) ==
  /\ wpc' = [wpc EXCEPT ![w] = label]
  /\ UNCHANGED wout

\* _scrape_with_api: the test of the request limit
CheckBudget(w) ==
  /\ wkind = "scrape_with_api" /\ wpc[w] = "start"
  /\ IF api_requests >= api_limit THEN Return(w, "denied") ELSE Goto(w, "post")
  /\ UNCHANGED <<resolverVars, imageVars, budgetVars, runVars, storeVars, wkind, wjob>>

\* _scrape_with_api: requests.post returns a response, and the counter is
\* incremented
Post(w) ==
  /\ wkind = "scrape_with_api" /\ wpc[w] = "post"
  /\ calls' = calls + 1
  /\ api_requests' = api_requests + 1
  /\ bstats' = [bstats EXCEPT !.api_requests_used = api_requests + 1]
  /\ Return(w, "called")
  /\ UNCHANGED <<resolverVars, imageVars, runVars, storeVars, wkind, wjob, client, denied, qpos, lastq>>

\* _download_and_validate_image: the test of the url, before the download
CheckUrl(w) ==
  /\ wkind = "download_and_validate_image" /\ wpc[w] = "start"
  /\ IF wjob[w].url \in processed_urls
     THEN /\ Return(w, "duplicate_url")
          /\ istats' = [istats EXCEPT !.duplicates_prevented = @ + 1]
     ELSE /\ Goto(w, "downloaded")
          /\ UNCHANGED istats
  /\ UNCHANGED <<resolverVars, budgetVars, runVars, storeVars, wkind, wjob, program, ncand,
                 processed_urls, processed_hashes, images, verdict, nexamined, image_data,
                 results, examined>>

\* _download_and_validate_image: the image passed the size and resolution
\* checks; the test of its hash
CheckHash(w) ==
  /\ wkind = "download_and_validate_image" /\ wpc[w] = "downloaded"
  /\ IF wjob[w].img_hash \in processed_hashes
     THEN /\ Return(w, "duplicate_hash")
          /\ istats' = [istats EXCEPT !.duplicates_prevented = @ + 1]
     ELSE /\ Goto(w, "save")
          /\ UNCHANGED istats
  /\ UNCHANGED <<resolverVars, budgetVars, runVars, storeVars, wkind, wjob, program, ncand,
                 processed_urls, processed_hashes, images, verdict, nexamined, image_data,
                 results, examined>>

\* _download_and_validate_image: the file and the row are written, and the
\* url and the hash are added to the sets
SaveImage(w) ==
  /\ wkind = "download_and_validate_image" /\ wpc[w] = "save"
  /\ images' = Append(images, [sneaker_id |-> w, url |-> wjob[w].url,
                               phash |-> wjob[w].img_hash, recorded |-> TRUE,
                               drive_url |-> FALSE])
  /\ processed_urls' = processed_urls \cup {wjob[w].url}
  /\ processed_hashes' = processed_hashes \cup {wjob[w].img_hash}
  /\ Return(w, "accepted")
  /\ UNCHANGED <<resolverVars, budgetVars, runVars, storeVars, wkind, wjob, program, ncand, istats,
                 verdict, nexamined, image_data, results, examined>>

\* _process_sneaker_data: the two queries for an existing sneaker
Lookup(w) ==
  /\ wkind = "process_sneaker_data" /\ wpc[w] = "start"
  /\ LET data == wjob[w].data
         bySku  == IF Truthy(data.sku) THEN First(BySku(catalog, data.sku)) ELSE 0
         byName == IF bySku = 0 /\ Truthy(data.name)
                   THEN First(ByNameILike(catalog, data.name))
                   ELSE 0
     IN IF bySku # 0 \/ byName # 0 THEN Return(w, "match") ELSE Goto(w, "insert")
  /\ UNCHANGED <<resolverVars, imageVars, budgetVars, runVars, storeVars, wkind, wjob>>

\* _process_sneaker_data: db.add, db.flush and db.commit of the new sneaker;
\* the flush raises IntegrityError when the sku is taken
Insert(w) ==
  /\ wkind = "process_sneaker_data" /\ wpc[w] = "insert"
  /\ LET data == wjob[w].data IN
     IF ~SkuUniqueOk(catalog, data.sku)
     THEN /\ Return(w, "error")
          /\ UNCHANGED catalog
     ELSE /\ Return(w, "new")
          /\ catalog' = Append(catalog, Row(data.name, data.brand, data.sku, data.price,
                                            data.desc))
  /\ UNCHANGED <<imageVars, budgetVars, runVars, storeVars, wkind, wjob, impl, query, pos, pass, session,
                 sessionOk, processed_names, rstats, countAfterFirst, last>>

\* the requests the metadata phase has used before the workers start
InitWorkers ==
  /\ ResolverIdle
  /\ ImagesIdle("workers")
  /\ RunIdle("none")
  /\ StoreIdle
  /\ client = "workers"
  /\ api_requests \in 0..api_limit
  /\ calls = api_requests
  /\ denied = 0
  /\ bstats = [ZeroBudgetStats EXCEPT !.api_requests_used = api_requests]
  /\ qpos = 0
  /\ lastq = "none"
  /\ wkind \in WorkerKinds
  /\ wpc = [w \in Workers |-> "start"]
  /\ wjob \in [Workers -> Jobs(wkind)]
  /\ wout = [w \in Workers |-> "none"]

NextWorkers ==
  \E w \in Workers :
    \/ CheckBudget(w)
    \/ Post(w)
    \/ CheckUrl(w)
    \/ CheckHash(w)
    \/ SaveImage(w)
    \/ Lookup(w)
    \/ Insert(w)

SpecWorkers == InitWorkers /\ [][NextWorkers]_vars

\* C16: with several workers calling the source at the same time, the number
\* of calls made never exceeds the request limit.
C16_ConcurrentCallsWithinLimit == calls <= api_limit

\* C17: two workers that resolve items with the same (brand, name) key at the
\* same time create one row between them: the catalog never holds two rows
\* with the same key, and a worker that did not create the row matched it.
C17_OneRowPerKey ==
  /\ \A i, j \in 1..Len(catalog) :
       (catalog[i].name = catalog[j].name /\ catalog[i].brand = catalog[j].brand) => i = j
  /\ \A w \in Workers : wout[w] # "error"

\* C18: two workers that process images with the same hash at the same time
\* never both accept them: no two stored images have the same hash.
C18_OneImagePerHash ==
  \A i, j \in 1..Len(images) : images[i].phash = images[j].phash => i = j


(***************************************************************************)
(* SpecStore: the image directory and the image table of the working       *)
(* collector, of the 36-hour collector (across restarts of the process)    *)
(* the production scraper and the two scrapers that upload to Drive, one   *)
(* download call after another.                                            *)
(***************************************************************************)
Sneakers == 1..MaxSneakers

StoreUrls == {"u1", "u2"}

\* MD5 digests of downloaded bytes
StoreHashes == {"h1", "h2"}

\* HAVING image_count < 3
images_wanted == 3

batch_size == BatchSize

\* drive_id: google_drive_id / drive_url of the row, "" when it has none
ImageRow(sneaker_id, url, local_path, image_hash, drive_id) ==
  [sneaker_id |-> sneaker_id, image_url |-> url, local_path |-> local_path,
   image_hash |-> image_hash, drive_id |-> drive_id]

\* COUNT(ri.id) of one sneaker
ImageCount(rows, s) == Cardinality({i \in 1..Len(rows) : rows[i].sneaker_id = s})

\* HAVING image_count < 3
NeedsImages(rows) == {s \in Sneakers : ImageCount(rows, s) < images_wanted}

\* ORDER BY image_count ASC, s.id
ComesBefore(rows, t, s) ==
  \/ ImageCount(rows, t) < ImageCount(rows, s)
  \/ ImageCount(rows, t) = ImageCount(rows, s) /\ t < s

\* WorkingSneakerCollector.get_sneakers_batch: LIMIT limit OFFSET off
GetSneakersBatch(rows, off, limit) ==
  LET el == NeedsImages(rows)
      n == Cardinality(el)
      ordered == [i \in 1..n |->
                    CHOOSE s \in el :
                      Cardinality({t \in el : ComesBefore(rows, t, s)}) = i - 1]
      upto == IF off + limit < n THEN off + limit ELSE n
  IN  IF off >= n THEN << >> ELSE SubSeq(ordered, off + 1, upto)

\* what the server answers to the GET of an image url
WorkingResponses == {"raise", "not_image", "invalid", "valid"}

ProductionResponses == {"raise", "not_image", "bad_size", "invalid", "valid"}

\* WorkingSneakerCollector.download_image; the file name is made of the
\* source, the sneaker and the url.  The caller gets the path when kind is
\* "exists" or "saved", and None otherwise.
DownloadImage_Working(fs, sneaker_id, url, resp) ==
  LET filepath == <<sneaker_id, url>>
  IN  IF filepath \in fs
      THEN [files |-> fs, kind |-> "exists", path |-> filepath]
      ELSE IF resp = "raise"
      THEN [files |-> fs, kind |-> "error", path |-> filepath]
      ELSE IF resp = "not_image"
      THEN [files |-> fs, kind |-> "not_image", path |-> filepath]
      ELSE IF resp = "valid"
      THEN [files |-> fs \cup {filepath}, kind |-> "saved", path |-> filepath]
      ELSE [files |-> (fs \cup {filepath}) \ {filepath}, kind |-> "invalid",
            path |-> filepath]

\* WorkingSneakerCollector.save_image_to_database
SaveImageToDatabase(rows, sneaker_id, url, local_path) ==
  Append(rows, ImageRow(sneaker_id, url, local_path, "", ""))

\* ProductionScraper.download_image; process_sneaker makes the file name of
\* the sneaker and the url
DownloadImage_Production(fs, sneaker_id, url, resp) ==
  LET filepath == <<sneaker_id, url>>
  IN  IF resp = "raise"
      THEN [files |-> fs, kind |-> "error", path |-> filepath]
      ELSE IF resp = "not_image"
      THEN [files |-> fs, kind |-> "not_image", path |-> filepath]
      ELSE IF resp = "bad_size"
      THEN [files |-> fs, kind |-> "bad_size", path |-> filepath]
      ELSE IF resp = "valid"
      THEN [files |-> fs \cup {filepath}, kind |-> "saved", path |-> filepath]
      ELSE [files |-> (fs \cup {filepath}) \ {filepath}, kind |-> "invalid",
            path |-> filepath]

\* ProductionScraper.save_image_to_database
SaveImageToDatabase_Production(rows, sneaker_id, url, local_path, drive_url) ==
  IF \E i \in 1..Len(rows) : rows[i].sneaker_id = sneaker_id /\ rows[i].image_url = url
  THEN rows
  ELSE Append(rows, ImageRow(sneaker_id, url, local_path, "", drive_url))

\* how GoogleDriveManager.upload_image ends: an id, None, or an exception
UploadOutcomes == {"ok", "none", "raise"}

\* what the server answers to the scrapers' GET of an image url
ScraperResponses == {"raise", "invalid", "valid"}

HasImage(rows, sneaker_id, url) ==
  \E i \in 1..Len(rows) : rows[i].sneaker_id = sneaker_id /\ rows[i].image_url = url

\* EnhancedScraper.save_sneaker_image
SaveSneakerImage(fs, rows, sneaker_id, url, resp, upload) ==
  LET local_path == <<sneaker_id, url>>
  IN  IF HasImage(rows, sneaker_id, url)
      THEN [files |-> fs, rows |-> rows, kind |-> "exists", path |-> local_path]
      ELSE IF resp = "raise"
      THEN [files |-> fs, rows |-> rows, kind |-> "error", path |-> local_path]
      ELSE IF resp = "invalid"
      THEN [files |-> fs, rows |-> rows, kind |-> "invalid", path |-> local_path]
      ELSE IF upload = "ok"
      THEN [files |-> (fs \cup {local_path}) \ {local_path},
            rows |-> Append(rows, ImageRow(sneaker_id, url, local_path, "", "d")),
            kind |-> "saved", path |-> local_path]
      ELSE \* no id, or an exception that is logged: no row, the file is left
           [files |-> fs \cup {local_path}, rows |-> rows, kind |-> "upload_failed",
            path |-> local_path]

\* ScraperManager._process_image
ProcessImage(fs, rows, sneaker_id, url, resp, upload) ==
  LET local_path == <<sneaker_id, url>>
  IN  IF HasImage(rows, sneaker_id, url)
      THEN [files |-> fs, rows |-> rows, kind |-> "exists", path |-> local_path]
      ELSE IF resp # "valid"
      THEN [files |-> fs, rows |-> rows, kind |-> "error", path |-> local_path]
      ELSE IF upload = "ok"
      THEN [files |-> (fs \cup {local_path}) \ {local_path},
            rows |-> Append(rows, ImageRow(sneaker_id, url, local_path, "", "d")),
            kind |-> "saved", path |-> local_path]
      ELSE IF upload = "none"
      THEN [files |-> (fs \cup {local_path}) \ {local_path}, rows |-> rows,
            kind |-> "upload_failed", path |-> local_path]
      ELSE [files |-> fs \cup {local_path}, rows |-> rows, kind |-> "upload_failed",
            path |-> local_path]

\* the INSERT into enhanced_sneaker_images violates UNIQUE (image_hash)
HashStored(rows, image_hash) == \E i \in 1..Len(rows) : rows[i].image_hash = image_hash

\* Enhanced36HourCollector.download_image, a variant that leaves the file of
\* a duplicate in the image directory
DownloadImage_Collector36_KeepsDuplicate(fs, rows, hashes, n, sneaker_id, url, status, image_hash) ==
  LET filepath == <<sneaker_id, n>>
  IN  IF status # 200
      THEN [files |-> fs, rows |-> rows, hashes |-> hashes, kind |-> "bad_status",
            path |-> filepath]
      ELSE IF image_hash \in hashes
      THEN [files |-> fs \cup {filepath}, rows |-> rows, hashes |-> hashes,
            kind |-> "duplicate", path |-> filepath]
      ELSE IF HashStored(rows, image_hash)
      THEN [files |-> fs \cup {filepath}, rows |-> rows,
            hashes |-> hashes \cup {image_hash}, kind |-> "error", path |-> filepath]
      ELSE [files |-> fs \cup {filepath},
            rows |-> Append(rows, ImageRow(sneaker_id, url, filepath, image_hash, "")),
            hashes |-> hashes \cup {image_hash}, kind |-> "saved", path |-> filepath]

\* Enhanced36HourCollector.download_image; the file name carries the time of
\* the call, n stands for it
DownloadImage_Collector36(fs, rows, hashes, n, sneaker_id, url, status, image_hash) ==
  LET filepath == <<sneaker_id, n>>
  IN  IF status # 200
      THEN [files |-> fs, rows |-> rows, hashes |-> hashes, kind |-> "bad_status",
            path |-> filepath]
      ELSE IF image_hash \in hashes
      THEN [files |-> (fs \cup {filepath}) \ {filepath}, rows |-> rows, hashes |-> hashes,
            kind |-> "duplicate", path |-> filepath]
      ELSE IF HashStored(rows, image_hash)
      THEN [files |-> fs \cup {filepath}, rows |-> rows,
            hashes |-> hashes \cup {image_hash}, kind |-> "error", path |-> filepath]
      ELSE [files |-> fs \cup {filepath},
            rows |-> Append(rows, ImageRow(sneaker_id, url, filepath, image_hash, "")),
            hashes |-> hashes \cup {image_hash}, kind |-> "saved", path |-> filepath]

\* the images one search returns for a sneaker
FoundLists ==
  {q \in UNION {[1..n -> StoreUrls] : n \in 0..MaxFound} :
     \A i, j \in 1..Len(q) : i # j => q[i] # q[j]}

\* verdicts of the dedup check and of the quality gate
GateRejections == {"duplicate", "invalid", "not_image", "bad_size"}

Fetched(kind, sneaker_id, url, path) ==
  [kind |-> kind, sneaker_id |-> sneaker_id, url |-> url, path |-> path,
   seq |-> 1 - fetched.seq]

NoteRejection(kind, sneaker_id, url) ==
  IF kind \in GateRejections THEN rejected \cup {<<sneaker_id, url>>} ELSE rejected

\* run_collection: a page of sneakers is fetched
WorkingGetBatch ==
  /\ collector = "working"
  /\ sphase = "loop"
  /\ LET sneakers == GetSneakersBatch(image_rows, offset, batch_size)
     IN  /\ sneakers # << >>
         /\ batch' = sneakers
  /\ sphase' = "batch"
  /\ UNCHANGED <<collector, offset, cur, all_images, files, image_rows, image_hash_set,
                 cycles_completed, ndownloads, fetched, due, visited, rejected>>
  /\ UNCHANGED <<resolverVars, imageVars, budgetVars, runVars, workerVars>>

\* run_collection: the page is empty, the cycle ends and the next begins
WorkingEndCycle ==
  /\ collector = "working"
  /\ sphase = "loop"
  /\ GetSneakersBatch(image_rows, offset, batch_size) = << >>
  /\ cycles_completed < MaxCycles
  /\ cycles_completed' = cycles_completed + 1
  /\ offset' = 0
  /\ due' = NeedsImages(image_rows)
  /\ visited' = {}
  /\ UNCHANGED <<collector, sphase, batch, cur, all_images, files, image_rows,
                 image_hash_set, ndownloads, fetched, rejected>>
  /\ UNCHANGED <<resolverVars, imageVars, budgetVars, runVars, workerVars>>

\* collect_images_for_sneaker begins: the sources are searched
WorkingVisit ==
  /\ collector = "working"
  /\ sphase = "batch"
  /\ batch # << >>
  /\ cur' = Head(batch)
  /\ batch' = Tail(batch)
  /\ all_images' \in FoundLists
  /\ visited' = visited \cup {Head(batch)}
  /\ sphase' = "sneaker"
  /\ UNCHANGED <<collector, offset, files, image_rows, image_hash_set, cycles_completed,
                 ndownloads, fetched, due, rejected>>
  /\ UNCHANGED <<resolverVars, imageVars, budgetVars, runVars, workerVars>>

\* collect_images_for_sneaker: one image is downloaded and recorded
WorkingImageStep ==
  /\ collector = "working"
  /\ sphase = "sneaker"
  /\ all_images # << >>
  /\ \E resp \in WorkingResponses :
       LET url == Head(all_images)
           d == DownloadImage_Working(files, cur, url, resp)
       IN  /\ files' = d.files
           /\ image_rows' = IF d.kind \in {"exists", "saved"}
                            THEN SaveImageToDatabase(image_rows, cur, url, d.path)
                            ELSE image_rows
           /\ fetched' = Fetched(d.kind, cur, url, d.path)
           /\ rejected' = NoteRejection(d.kind, cur, url)
  /\ all_images' = Tail(all_images)
  /\ UNCHANGED <<collector, sphase, offset, batch, cur, image_hash_set, cycles_completed,
                 ndownloads, due, visited>>
  /\ UNCHANGED <<resolverVars, imageVars, budgetVars, runVars, workerVars>>

\* collect_images_for_sneaker returns
WorkingEndVisit ==
  /\ collector = "working"
  /\ sphase = "sneaker"
  /\ all_images = << >>
  /\ sphase' = "batch"
  /\ cur' = 0
  /\ UNCHANGED <<collector, offset, batch, all_images, files, image_rows, image_hash_set,
                 cycles_completed, ndownloads, fetched, due, visited, rejected>>
  /\ UNCHANGED <<resolverVars, imageVars, budgetVars, runVars, workerVars>>

\* run_collection: the page is done, offset += batch_size
WorkingEndBatch ==
  /\ collector = "working"
  /\ sphase = "batch"
  /\ batch = << >>
  /\ offset' = offset + batch_size
  /\ sphase' = "loop"
  /\ UNCHANGED <<collector, batch, cur, all_images, files, image_rows, image_hash_set,
                 cycles_completed, ndownloads, fetched, due, visited, rejected>>
  /\ UNCHANGED <<resolverVars, imageVars, budgetVars, runVars, workerVars>>

\* one call of Enhanced36HourCollector.download_image
Collector36DownloadStep ==
  /\ collector = "collector36"
  /\ ndownloads < MaxDownloads
  /\ \E sneaker_id \in Sneakers, url \in StoreUrls, status \in {200, 404},
        image_hash \in StoreHashes :
       LET d == DownloadImage_Collector36(files, image_rows, image_hash_set, ndownloads,
                                          sneaker_id, url, status, image_hash)
       IN  /\ files' = d.files
           /\ image_rows' = d.rows
           /\ image_hash_set' = d.hashes
           /\ fetched' = Fetched(d.kind, sneaker_id, url, d.path)
           /\ rejected' = NoteRejection(d.kind, sneaker_id, url)
  /\ ndownloads' = ndownloads + 1
  /\ UNCHANGED <<collector, sphase, offset, batch, cur, all_images, cycles_completed,
                 due, visited>>
  /\ UNCHANGED <<resolverVars, imageVars, budgetVars, runVars, workerVars>>

\* the 36-hour collector is started again: __init__ makes image_hashes an
\* empty set, the image directory and the table are as the last run left them
Collector36Restart ==
  /\ collector = "collector36"
  /\ image_hash_set # {}
  /\ image_hash_set' = {}
  /\ UNCHANGED <<collector, sphase, offset, batch, cur, all_images, files, image_rows,
                 cycles_completed, ndownloads, fetched, due, visited, rejected>>
  /\ UNCHANGED <<resolverVars, imageVars, budgetVars, runVars, workerVars>>

\* ProductionScraper.process_sneaker: one image is downloaded and recorded
ProductionDownloadStep ==
  /\ collector = "production"
  /\ ndownloads < MaxDownloads
  /\ \E sneaker_id \in Sneakers, url \in StoreUrls, resp \in ProductionResponses,
        upload \in {"ok", "none"} :
       LET d == DownloadImage_Production(files, sneaker_id, url, resp)
           drive_url == IF upload = "ok" THEN "d" ELSE ""
       IN  /\ files' = d.files
           /\ image_rows' = IF d.kind = "saved"
                            THEN SaveImageToDatabase_Production(image_rows, sneaker_id,
                                                                url, d.path, drive_url)
                            ELSE image_rows
           /\ fetched' = Fetched(IF d.kind = "saved" /\ upload # "ok"
                                 THEN "upload_failed" ELSE d.kind,
                                 sneaker_id, url, d.path)
           /\ rejected' = NoteRejection(d.kind, sneaker_id, url)
  /\ ndownloads' = ndownloads + 1
  /\ UNCHANGED <<collector, sphase, offset, batch, cur, all_images, image_hash_set,
                 cycles_completed, due, visited>>
  /\ UNCHANGED <<resolverVars, imageVars, budgetVars, runVars, workerVars>>

\* collect_images_for_sneaker: one image of one sneaker is downloaded and
\* recorded (the loop body, for any sneaker and any search result)
WorkingDownloadStep ==
  /\ collector = "working"
  /\ ndownloads < MaxDownloads
  /\ \E sneaker_id \in Sneakers, url \in StoreUrls, resp \in WorkingResponses :
       LET d == DownloadImage_Working(files, sneaker_id, url, resp)
       IN  /\ files' = d.files
           /\ image_rows' = IF d.kind \in {"exists", "saved"}
                            THEN SaveImageToDatabase(image_rows, sneaker_id, url, d.path)
                            ELSE image_rows
           /\ fetched' = Fetched(d.kind, sneaker_id, url, d.path)
           /\ rejected' = NoteRejection(d.kind, sneaker_id, url)
  /\ ndownloads' = ndownloads + 1
  /\ UNCHANGED <<collector, sphase, offset, batch, cur, all_images, image_hash_set,
                 cycles_completed, due, visited>>
  /\ UNCHANGED <<resolverVars, imageVars, budgetVars, runVars, workerVars>>

\* one call of EnhancedScraper.save_sneaker_image
SaveSneakerImageStep ==
  /\ collector = "enhanced_scraper"
  /\ ndownloads < MaxDownloads
  /\ \E sneaker_id \in Sneakers, url \in StoreUrls, resp \in ScraperResponses,
        upload \in UploadOutcomes :
       LET d == SaveSneakerImage(files, image_rows, sneaker_id, url, resp, upload)
       IN  /\ files' = d.files
           /\ image_rows' = d.rows
           /\ fetched' = Fetched(d.kind, sneaker_id, url, d.path)
           /\ rejected' = NoteRejection(d.kind, sneaker_id, url)
  /\ ndownloads' = ndownloads + 1
  /\ UNCHANGED <<collector, sphase, offset, batch, cur, all_images, image_hash_set,
                 cycles_completed, due, visited>>
  /\ UNCHANGED <<resolverVars, imageVars, budgetVars, runVars, workerVars>>

\* one call of ScraperManager._process_image
ProcessImageStep ==
  /\ collector = "scraper_manager"
  /\ ndownloads < MaxDownloads
  /\ \E sneaker_id \in Sneakers, url \in StoreUrls, resp \in ScraperResponses,
        upload \in UploadOutcomes :
       LET d == ProcessImage(files, image_rows, sneaker_id, url, resp, upload)
       IN  /\ files' = d.files
           /\ image_rows' = d.rows
           /\ fetched' = Fetched(d.kind, sneaker_id, url, d.path)
           /\ rejected' = NoteRejection(d.kind, sneaker_id, url)
  /\ ndownloads' = ndownloads + 1
  /\ UNCHANGED <<collector, sphase, offset, batch, cur, all_images, image_hash_set,
                 cycles_completed, due, visited>>
  /\ UNCHANGED <<resolverVars, imageVars, budgetVars, runVars, workerVars>>

\* an empty image directory and an empty image table
StoreEmpty ==
  /\ sphase = "loop"
  /\ offset = 0
  /\ batch = << >>
  /\ cur = 0
  /\ all_images = << >>
  /\ files = {}
  /\ image_rows = << >>
  /\ image_hash_set = {}
  /\ cycles_completed = 0
  /\ ndownloads = 0
  /\ fetched = NoFetch
  /\ visited = {}
  /\ rejected = {}

InitStore ==
  /\ ResolverIdle
  /\ ImagesIdle("store")
  /\ BudgetIdle("store")
  /\ RunIdle("none")
  /\ WorkersIdle
  /\ collector \in {"working", "collector36", "production", "enhanced_scraper",
                    "scraper_manager"}
  /\ StoreEmpty
  /\ due = {}

NextStore ==
  \/ WorkingDownloadStep
  \/ Collector36DownloadStep
  \/ Collector36Restart
  \/ ProductionDownloadStep
  \/ SaveSneakerImageStep
  \/ ProcessImageStep

SpecStore == InitStore /\ [][NextStore]_vars


(***************************************************************************)
(* SpecCycle: WorkingSneakerCollector.run_collection paging through the    *)
(* sneakers that lack images, cycle after cycle.                           *)
(***************************************************************************)
InitCycle ==
  /\ ResolverIdle
  /\ ImagesIdle("cycle")
  /\ BudgetIdle("cycle")
  /\ RunIdle("none")
  /\ WorkersIdle
  /\ collector = "working"
  /\ StoreEmpty
  /\ due = NeedsImages(<< >>)

NextCycle ==
  \/ WorkingGetBatch
  \/ WorkingEndCycle
  \/ WorkingVisit
  \/ WorkingImageStep
  \/ WorkingEndVisit
  \/ WorkingEndBatch

SpecCycle == InitCycle /\ [][NextCycle]_vars


(***************************************************************************)
(* Claims about the image directory and the image tables.                  *)
(***************************************************************************)
\* a download_image call has returned in this step
Downloaded == fetched'.seq # fetched.seq

Requested == Downloaded /\ fetched'.kind # "exists"

\* C22: an image that a gate has rejected is not fetched again later in the
\* run: no download_image call sends a request for a (sneaker, url) pair that
\* an earlier call rejected.
C22_RejectedNotFetchedAgain ==
  [][Requested => <<fetched'.sneaker_id, fetched'.url>> \notin rejected]_vars

RowsOf(sneaker_id, url) ==
  {i \in 1..Len(image_rows) :
     image_rows[i].sneaker_id = sneaker_id /\ image_rows[i].image_url = url}

\* C28: across the cycles of the working collector real_sneaker_images holds
\* at most one row per (sneaker, image url) pair.
C28_OneRowPerImage ==
  \A sneaker_id \in Sneakers, url \in StoreUrls : Cardinality(RowsOf(sneaker_id, url)) <= 1

HasRow(f) == \E i \in 1..Len(image_rows) : image_rows[i].local_path = f

\* C29: whenever download_image of the 36-hour collector has returned, every
\* file in the image directory has an enhanced_sneaker_images row that names
\* it, also when the hash of the image was stored by an earlier run.
C29_EveryFileHasRow == (collector = "collector36") => \A f \in files : HasRow(f)

\* the empty page that ends a cycle is returned in this step
CycleEnds == cycles_completed' = cycles_completed + 1

\* C30: when a cycle of the working collector ends, every sneaker that had
\* fewer than 3 images when the cycle began has been visited in it.
C30_CycleVisitsAll == [][CycleEnds => due \subseteq visited]_vars


(***************************************************************************)
(* Claims about the order and the scope of the resolvers' lookups.         *)
(***************************************************************************)
\* this step is a resolver call on query[pos], on a usable session
ResolverCall == pos' = pos + 1 /\ sessionOk

\* the rows with the SKU of the RawItem, if it has one
SkuRows == IF Truthy(query[pos].sku) THEN BySku(session, query[pos].sku) ELSE {}

\* the rows with the normalized (brand, name) pair of the RawItem
ExactRows ==
  {i \in 1..Len(session) :
     /\ Normalized(session[i].brand) = Normalized(query[pos].brand)
     /\ Normalized(session[i].name) = Normalized(query[pos].name)}

\* the call has resolved the RawItem to one of these rows
MatchedOneOf(rowids) == last'.kind = "match" /\ last'.idx \in rowids

\* C23: the resolver tries the SKU of the RawItem first, and a row with that
\* SKU wins over every name-based match; only when no row has the SKU does a
\* row with the same normalized (brand, name) pair match, before any row that
\* only matches by containment.
C23_PriorityOrder ==
  [][(/\ ResolverCall
      /\ impl \in {"process_sneaker_data", "save_sneaker_to_db", "save_sneaker_from_sneaks"}
      /\ Truthy(query[pos].name)) =>
       /\ SkuRows # {} => MatchedOneOf(SkuRows)
       /\ (SkuRows = {} /\ ExactRows # {}) => MatchedOneOf(ExactRows)]_vars

\* C24: a RawItem that matches a row by containment of the name, and not by
\* its SKU, matches a row of its own brand.
C24_ContainmentWithinBrand ==
  [][(/\ ResolverCall
      /\ impl \in {"process_sneaker_data", "save_sneaker_from_sneaks"}
      /\ SkuRows = {}
      /\ last'.kind = "match") =>
       Normalized(session[last'.idx].brand) = Normalized(query[pos].brand)]_vars

\* C27: a new sneaker that arrives without a SKU is not turned away by the
\* unique constraint on sku: a resolver call on a SKU-less RawItem does not
\* end in an error.
C27_SkuLessIsStored ==
  [][(/\ ResolverCall
      /\ impl \in {"save_sneaker_to_db", "save_sneaker_from_sneaks"}
      /\ query[pos].sku = None) =>
       last'.kind # "error"]_vars


(***************************************************************************)
(* Claims about the upload to Google Drive.                                *)
(***************************************************************************)
\* the image table has a row for the image, without a Drive reference
RecordedWithoutRef(rows, sneaker_id, url) ==
  \E i \in 1..Len(rows) :
    /\ rows[i].sneaker_id = sneaker_id
    /\ rows[i].image_url = url
    /\ rows[i].drive_id = ""

\* C25: when the upload of an accepted image to Google Drive fails, the row of
\* the image is still stored, with no Drive reference.
C25_UploadFailureKeepsRow ==
  [][(Downloaded /\ fetched'.kind = "upload_failed")
       => RecordedWithoutRef(image_rows', fetched'.sneaker_id, fetched'.url)]_vars


(***************************************************************************)
(* Claims about the counters of a run.                                     *)
(***************************************************************************)
\* _download_and_validate_image has returned False in this step
CandidateFails == ncand' = ncand + 1 /\ verdict'.kind # "accepted"

\* C26: every image candidate that is rejected or fails moves a counter of
\* stats: none leaves _download_and_validate_image uncounted.  (The function
\* touches no counter of stats besides the three of istats.)
C26_EveryFailureCounted == [][CandidateFails => istats' # istats]_vars

====
